---------------------------- MODULE Spec2Model ----------------------------
(***************************************************************************)
(* Multi-instance supervisor and stats aggregator of conduit's CLI         *)
(* (package conduit, type MultiService).                                   *)
(*                                                                         *)
(* One task per goroutine of the code: a supervisor per instance (the loop *)
(* in Run), a stdout scraper and a stderr scraper per spawned worker, the  *)
(* grace-period watcher of a worker, the aggregator, and Run itself.  The  *)
(* worker processes and the caller's signal handler are the environment.   *)
(*                                                                         *)
(* Critical sections that touch only memory are one step, taken when the   *)
(* mutex is free.  The aggregator's section iterates over the instances,   *)
(* so it is several steps during which mu is held.                         *)
(*                                                                         *)
(* A step of a goroutine that touches no shared state is merged with its   *)
(* next step that does: runInstance returning and the test of ctx.Err()    *)
(* that follows it are one step, and so are cmd.Start and the store to     *)
(* m.processes.                                                            *)
(*                                                                         *)
(* Time is counted in hours (the unit of IdleTimeout).  The delays that    *)
(* are seconds long (RestartBackoff, ShutdownTimeout) are steps that end.  *)
(* An exited worker's scrapers hold at most one line each; the model takes *)
(* them to have drained by the time the backoff delay of that worker's     *)
(* supervisor has elapsed.                                                 *)
(***************************************************************************)
EXTENDS Integers, Sequences, FiniteSets, TLC

\* ------------------------------------------------------------------ bounds

\* Number of instances.
NumInstances == 2
\* Number of instances of the specifications with a clock.
NumInstancesTimed == 1
\* Output lines all workers together write to stdout in one run.
MaxEmits == 2
\* Output lines all workers together write in one run of Spec, where two
\* supervisors start, restart and stop their workers.
MaxEmitsShared == 1
\* Workers that exit on their own, and spawns that fail, in one run of the
\* specifications that bound them.
MaxCrashes == 1
\* Hours the clock can advance in one run.
MaxHours == 2
\* Calls of Stop in one run.
MaxStops == 2
\* Workers each instance may still be spawned where SpecGiveUp starts.
AttemptsLeft == 2

\* ------------------------------------------------------- program constants

MaxRestarts == 5
\* IdleTimeout, in hours.
IdleTimeout == 1
\* RestartBackoff, in seconds.
RestartBackoff == 5
\* Capacity of the statsChanged channel.
StatsChangedCap == 100

\* time.Time{} (IsZero) and the hour at which the service is constructed.
ZeroTime == 0
StartHour == 1

\* --------------------------------------------------------------------- text

\* A token is the text of a regexp group, a sequence of one-character
\* strings.  The groups are (\d+) and ([\d.]+), so a token is made of the
\* decimal digits and the point.
DigitChars == <<"0", "1", "2", "3", "4", "5", "6", "7", "8", "9">>
Digits == {DigitChars[n] : n \in 1 .. 10}
DigitValue(c) == (CHOOSE n \in 1 .. 10 : DigitChars[n] = c) - 1

\* FindStringSubmatch found nothing.
NoMatch == <<>>

RECURSIVE DigitsValue(_)
\* The number a sequence of digits writes.
DigitsValue(tok) ==
    IF tok = <<>> THEN 0
    ELSE 10 * DigitsValue(SubSeq(tok, 1, Len(tok) - 1)) + DigitValue(tok[Len(tok)])

\* Decimal digits an int can have; a longer token is out of range.
MaxIntDigits == 19

\* strconv.Atoi: <<v>>, or <<>> for an error.  Tokens of 10 to 19 digits
\* are beyond the integers of the model and are not among its inputs.
Atoi(tok) ==
    IF tok = <<>> \/ (\E n \in 1 .. Len(tok) : tok[n] \notin Digits)
                  \/ Len(tok) > MaxIntDigits
      THEN <<>>
      ELSE <<DigitsValue(tok)>>

\* The token without its points.
NoPoints(tok) == SelectSeq(tok, LAMBDA c : c # ".")

\* strconv.ParseFloat(numStr, 64) on a token of digits and points: <<>> for
\* an error, else <<[t, d]>> for the value t / 10^d.  The tokens of the model
\* write values a float64 holds exactly, so no rounding takes place.
ParseFloat(numStr) ==
    LET points == {n \in 1 .. Len(numStr) : numStr[n] = "."}
        digits == NoPoints(numStr)
    IN  IF \/ digits = <<>>
           \/ Cardinality(points) > 1
           \/ \E n \in 1 .. Len(numStr) : numStr[n] \notin Digits \cup {"."}
          THEN <<>>
          ELSE <<[t |-> DigitsValue(digits),
                  d |-> IF points = {} THEN 0
                        ELSE Len(numStr) - (CHOOSE n \in points : TRUE)]>>

\* ------------------------------------------------------------ 64-bit values

\* A magnitude is written in base 1024, least significant digit first, with
\* no leading zero digit: <<>> is 0, <<0, 1>> is 1024.
Base == 1024

RECURSIVE Normal(_)
\* The magnitude without leading zero digits.
Normal(m) ==
    IF m # <<>> /\ m[Len(m)] = 0 THEN Normal(SubSeq(m, 1, Len(m) - 1)) ELSE m

RECURSIVE MulSmall(_, _, _)
\* m * x + carry, for a small x.
MulSmall(m, x, carry) ==
    IF m = <<>>
      THEN IF carry = 0 THEN <<>>
           ELSE <<carry % Base>> \o MulSmall(<<>>, x, carry \div Base)
      ELSE LET v == m[1] * x + carry
           IN  <<v % Base>> \o MulSmall(Tail(m), x, v \div Base)

RECURSIVE DivSmall(_, _, _)
\* The quotient of (rem * Base^Len(m) + m) by a small x, most significant
\* digit computed first; the result has Len(m) digits.
DivSmall(m, x, rem) ==
    IF m = <<>> THEN <<>>
    ELSE LET v == rem * Base + m[Len(m)]
         IN  DivSmall(SubSeq(m, 1, Len(m) - 1), x, v % x) \o <<v \div x>>

RECURSIVE DivPow10(_, _)
\* m / 10^d, truncated.
DivPow10(m, d) ==
    IF d = 0 THEN Normal(m) ELSE DivPow10(Normal(DivSmall(m, 10, 0)), d - 1)

\* An int64: a sign and a magnitude.
Int64(neg, mag) == [neg |-> neg, mag |-> mag]
\* math.MaxInt64 and math.MinInt64.
Int64Max == Int64(FALSE, <<1023, 1023, 1023, 1023, 1023, 1023, 7>>)
Int64Min == Int64(TRUE, <<0, 0, 0, 0, 0, 0, 8>>)

\* The magnitude is below 2^63.
FitsInt64(mag) == Len(mag) < 7 \/ (Len(mag) = 7 /\ mag[7] < 8)

RECURSIVE MagValue(_)
\* A magnitude as an integer of the model (below 2^31).
MagValue(mag) == IF mag = <<>> THEN 0 ELSE mag[1] + Base * MagValue(Tail(mag))

\* An int64 as an integer of the model.
Small(x) == IF x.neg THEN 0 - MagValue(x.mag) ELSE MagValue(x.mag)

\* int64(f) for a float64 f >= 0 with the integer part mag.  Out of range
\* the result is implementation-dependent: MinInt64 where the conversion
\* instruction reports the indefinite value (amd64), MaxInt64 where it
\* saturates (arm64).
ToInt64(mag, saturates) ==
    IF FitsInt64(mag) THEN Int64(FALSE, mag)
    ELSE IF saturates THEN Int64Max ELSE Int64Min

\* The builds: whether the float-to-integer conversion saturates.
Builds == BOOLEAN

\* Multipliers in which a KB is 1000 bytes.
byteMultipliersKilo ==
    [u \in {"B", "KB", "MB", "GB", "TB", "PB", "EB"} |->
        IF u = "B" THEN <<1>> ELSE <<1000>>]

\* byteMultipliers, as magnitudes.
byteMultipliers ==
    [u \in {"B", "KB", "MB", "GB", "TB", "PB", "EB"} |->
        CASE u = "B" -> <<1>>
          [] u = "KB" -> <<0, 1>>
          [] u = "MB" -> <<0, 0, 1>>
          [] u = "GB" -> <<0, 0, 0, 1>>
          [] u = "TB" -> <<0, 0, 0, 0, 1>>
          [] u = "PB" -> <<0, 0, 0, 0, 0, 1>>
          [] u = "EB" -> <<0, 0, 0, 0, 0, 0, 1>>]

\* parseByteValue(numStr, unit) in a build.
parseByteValue(numStr, unit, saturates) ==
    LET val == ParseFloat(numStr)
    IN  IF val = <<>> THEN Int64(FALSE, <<>>)
        ELSE IF unit \in DOMAIN byteMultipliers
          THEN ToInt64(DivPow10(MulSmall(byteMultipliers[unit], val[1].t, 0),
                                val[1].d), saturates)
          ELSE ToInt64(DivPow10(MulSmall(<<1>>, val[1].t, 0), val[1].d),
                       saturates)

\* The number tokens given to parseByteValue: texts of digits and points
\* whose values a float64 holds exactly, texts ParseFloat rejects, and the
\* empty text.
NumTokens ==
    {<<"0">>, <<"1">>, <<"8">>, <<"1", "0", "2", "3">>, <<"1", ".", "5">>,
     <<"7", ".", "5">>, <<"0", ".", "2", "5">>, <<".", "5">>, <<"1", ".">>,
     <<".">>, <<"1", ".", "2", ".", "3">>, <<>>,
     <<"2">>, <<"1", ".", "0">>, <<"2", ".", "0">>}

\* The units given to parseByteValue: those of byteMultipliers and others.
Units == {"B", "KB", "MB", "GB", "TB", "PB", "EB", "ZB", "kb", ""}

\* parseByteValue on every text of the model, computed once per text.
byteValues ==
    [numStr \in NumTokens, unit \in Units, saturates \in Builds |->
        parseByteValue(numStr, unit, saturates)]

\* ------------------------------------------------------------- worker lines

\* A line is what the scraper's tests and regexps find in it: its kind
\* ("live" holds the liveness marker, "stats" holds "[STATS]", "other"
\* neither) and, for a stats line, the groups of connectingRe, connectedRe,
\* upRe and downRe: <<token>> or <<number token, unit>>, NoMatch if the
\* regexp does not match.

\* "[OK] Connected to Psiphon network"
LiveLine == [kind |-> "live"]

\* "[STATS] Connecting: 1 Connected: 1 Up: 1.0 KB Down: 2.0 KB"
StatsFull == [kind |-> "stats", connecting |-> <<<<"1">>>>,
              connected |-> <<<<"1">>>>,
              up |-> <<<<"1", ".", "0">>, "KB">>,
              down |-> <<<<"2", ".", "0">>, "KB">>]
\* "[STATS] Connecting: 1 Connected: 0"
StatsIdle == [kind |-> "stats", connecting |-> <<<<"1">>>>,
              connected |-> <<<<"0">>>>,
              up |-> NoMatch, down |-> NoMatch]

\* The lines a worker may write to its stdout.
Lines == {LiveLine, StatsFull, StatsIdle}

\* A line with neither the liveness marker nor "[STATS]".
OtherLine == [kind |-> "other"]

NoLine == [kind |-> "none"]

\* ---------------------------------------------------------------- state

VARIABLES
    numInstances,   \* m.numInstances
    now,            \* time.Now(), in hours
    cancelled,      \* ctx.Err() != nil
    sup,            \* position of each supervisor goroutine
    restartCount,   \* the supervisor's local restartCount
    lastErr,        \* err of the last runInstance call was non-nil
    instanceStats,  \* m.instanceStats
    processes,      \* m.processes: 0 is nil, k is the cmd of the k-th spawn
    proc,           \* state of the worker process spawned last
    spawned,        \* number of successful cmd.Start of each instance
    scr,            \* stdout scraper of the worker spawned last
    scrLine,        \* the line that scraper holds
    errScr,         \* stderr scraper of the worker spawned last
    emitted,        \* lines written by all workers so far
    crashes,        \* workers that exited on their own and spawns that failed
    wg,             \* m.wg
    mu,             \* m.mu: "free" or its holder
    statsChanged,   \* number of signals queued in m.statsChanged
    aggPc,          \* position of the aggregator goroutine
    aggFinal,       \* the aggregator is in its ctx.Done() case
    aggI,           \* loop index of printAndWriteStats
    acc,            \* running totals of printAndWriteStats
    lastPublished,  \* the last snapshot printed (and written to the stats file)
    statsDone,      \* m.statsDone is closed
    errChan,        \* errChan: the instances whose error is queued
    gaveUp,         \* history: instances that gave up with an error, in order
    runPc,          \* position of Run
    runResult,      \* Run's return value: <<>> is nil, <<i>> the error of i
    call,           \* the last call of a function applied on its own
    zeroFrom,       \* history: <<h>> if Connected has been zero since hour h
    liveFrom,       \* history: <<h>> if IsLive has been true since hour h
    slept,          \* history: the delays each supervisor has slept, in seconds
    tally,          \* history: value-changing lines and publishes, if counted
    stopPc,         \* position of each call of Stop
    stopI,          \* index of the loop of the Stop that holds the lock
    signalled       \* history: the <<instance, spawn>> Stop has interrupted

vars == <<numInstances, now, cancelled, sup, restartCount, lastErr,
          instanceStats, processes, proc, spawned, scr, scrLine,
          errScr, emitted, crashes, wg, mu, statsChanged, aggPc, aggFinal, aggI, acc,
          lastPublished, statsDone, errChan, gaveUp, runPc,
          runResult, call, zeroFrom, liveFrom, slept, tally, stopPc, stopI,
          signalled>>

Instances == 0 .. (numInstances - 1)

\* NewMultiService: one zero-valued InstanceStats per instance.
NewInstanceStats ==
    [IsLive |-> FALSE, Connecting |-> 0, Connected |-> 0, BytesUp |-> 0,
     BytesDown |-> 0, RestartCount |-> 0, LastZeroTime |-> ZeroTime]

ZeroTotals ==
    [live |-> 0, connecting |-> 0, connected |-> 0, up |-> 0, down |-> 0,
     restarts |-> 0]

NoSnapshot == [live |-> -1]

\* No function has been applied on its own.
NoCall == [fn |-> "none"]

\* The lines and the publishes are not counted.
NoTally == <<>>

\* The calls of Stop a behaviour may hold.
StopCalls == 1 .. MaxStops

\* Nothing counted so far.
ZeroTally == [changes |-> 0, publishes |-> 0]

\* One more of what is counted, where it is counted.
Tallied(t, what) == IF t = NoTally THEN t ELSE [t EXCEPT ![what] = @ + 1]

\* The state when Run has started every supervisor goroutine and the
\* aggregator and is about to block in m.wg.Wait(); t is the tally.
InitWith(n, t) ==
    /\ numInstances = n
    /\ now = StartHour
    /\ cancelled = FALSE
    /\ sup = [i \in 0 .. (n - 1) |-> "Starting"]
    /\ restartCount = [i \in 0 .. (n - 1) |-> 0]
    /\ lastErr = [i \in 0 .. (n - 1) |-> FALSE]
    /\ instanceStats = [i \in 0 .. (n - 1) |-> NewInstanceStats]
    /\ processes = [i \in 0 .. (n - 1) |-> 0]
    /\ proc = [i \in 0 .. (n - 1) |-> "none"]
    /\ spawned = [i \in 0 .. (n - 1) |-> 0]
    /\ scr = [i \in 0 .. (n - 1) |-> "none"]
    /\ scrLine = [i \in 0 .. (n - 1) |-> NoLine]
    /\ errScr = [i \in 0 .. (n - 1) |-> "none"]
    /\ emitted = 0
    /\ crashes = 0
    /\ wg = n
    /\ mu = "free"
    /\ statsChanged = 0
    /\ aggPc = "select"
    /\ aggFinal = FALSE
    /\ aggI = 0
    /\ acc = ZeroTotals
    /\ lastPublished = NoSnapshot
    /\ statsDone = FALSE
    /\ errChan = <<>>
    /\ gaveUp = <<>>
    /\ runPc = "wait"
    /\ runResult = <<>>
    /\ zeroFrom = [i \in 0 .. (n - 1) |-> <<StartHour>>]
    /\ liveFrom = [i \in 0 .. (n - 1) |-> <<>>]
    /\ slept = [i \in 0 .. (n - 1) |-> <<>>]
    /\ tally = t
    /\ stopPc = [k \in StopCalls |-> "idle"]
    /\ stopI = 0
    /\ signalled = <<>>

InitFor(n) == InitWith(n, NoTally)

Init == InitFor(NumInstances) /\ call = NoCall

supVars  == <<sup, restartCount, lastErr>>
procVars == <<processes, proc, spawned>>
scrVars  == <<scr, scrLine, errScr>>
aggVars  == <<statsChanged, aggPc, aggFinal, aggI, acc, lastPublished, statsDone>>
runVars  == <<errChan, gaveUp, runPc, runResult>>
stopVars == <<stopPc, stopI, signalled>>

\* A cmd.Wait that returned while the process runs.
ExitedAlways(p) == TRUE

\* The process has ended: cmd.Wait can return, its pipes are at end of file.
Exited(p) == p \in {"exit0", "exit1", "killed"}

\* ------------------------------------------------------------ supervisor

\* A cmd.Start that ignored the context.
StartNeverRefused == FALSE

\* cmd.Start returns ctx.Err() when the context is already done.
StartRefused == cancelled

\* A loop that never tested the context.
CleanShutdownNever == FALSE

\* if ctx.Err() != nil { return }
CleanShutdown == cancelled

\* The ceiling tested with > instead of >=.
ReachedMaxOffByOne(rc) == rc > MaxRestarts

\* if restartCount >= MaxRestarts
ReachedMax(rc) == rc >= MaxRestarts

\* The supervisor loop from the return of runInstance (err non-nil or nil)
\* to the test of ctx.Err() and restartCount++.
AfterRunInstance(i, err) ==
    /\ lastErr' = [lastErr EXCEPT ![i] = err]
    /\ IF CleanShutdown
         THEN /\ sup' = [sup EXCEPT ![i] = "ExitedClean"]
              /\ wg' = wg - 1
              /\ UNCHANGED restartCount
         ELSE /\ sup' = [sup EXCEPT ![i] = "ExitedCrashed"]
              /\ restartCount' = [restartCount EXCEPT ![i] = @ + 1]
              /\ UNCHANGED wg

\* The stderr scraper left out of the WaitGroup.
WgAddStdoutOnly(w) == w + 1

\* m.wg.Add(1) before each of the two scraper goroutines.
WgAddScrapers(w) == w + 2

\* A runInstance that stores no cmd.
StoredNil(cmd) == 0

\* A runInstance that stores a cmd it has not started.
StoredUnstarted(cmd) == cmd + 1

\* m.processes[idx] = cmd
StoredCmd(cmd) == cmd

\* runInstance up to cmd.Wait: the process is started, m.processes[idx] is
\* set under the lock, the scrapers are started.  A context that is done
\* makes cmd.Start fail.
SupStart(i) ==
    /\ sup[i] = "Starting"
    /\ IF StartRefused
         THEN /\ AfterRunInstance(i, TRUE)
              /\ UNCHANGED <<procVars, scrVars>>
         ELSE /\ mu = "free"
              /\ proc' = [proc EXCEPT ![i] = "running"]
              /\ spawned' = [spawned EXCEPT ![i] = @ + 1]
              /\ processes' = [processes EXCEPT
                                 ![i] = StoredCmd(spawned[i] + 1)]
              /\ scr' = [scr EXCEPT ![i] = "scan"]
              /\ scrLine' = [scrLine EXCEPT ![i] = NoLine]
              /\ errScr' = [errScr EXCEPT ![i] = "scan"]
              /\ wg' = WgAddScrapers(wg)
              /\ sup' = [sup EXCEPT ![i] = "Running"]
              /\ UNCHANGED <<restartCount, lastErr>>
    /\ UNCHANGED <<call, zeroFrom, liveFrom, slept, tally, stopVars, numInstances, now, cancelled, instanceStats, emitted,
                   crashes, mu, aggVars, runVars>>

\* A failed spawn reported as a nil error.
SpawnErrorDropped == FALSE

\* return fmt.Errorf("failed to ..."): the error of a failed spawn is non-nil.
SpawnError == TRUE

\* runInstance failing before the process runs: os.Executable, a pipe or
\* cmd.Start returns an error.
SupStartFail(i) ==
    /\ sup[i] = "Starting"
    /\ AfterRunInstance(i, SpawnError)
    /\ UNCHANGED <<call, zeroFrom, liveFrom, slept, tally, stopVars, numInstances, now, cancelled, instanceStats, procVars,
                   scrVars, emitted, mu, aggVars, runVars>>

\* cmd.Wait returns: nil after exit status 0, an error otherwise.
SupWait(i) ==
    /\ sup[i] = "Running"
    /\ Exited(proc[i])
    /\ AfterRunInstance(i, proc[i] # "exit0")
    /\ UNCHANGED <<call, zeroFrom, liveFrom, slept, tally, stopVars, numInstances, now, cancelled, instanceStats, procVars,
                   scrVars, emitted, crashes, mu, aggVars, runVars>>

\* An error channel without a buffer.
ErrChanUnbuffered(n) == 0

\* errChan := make(chan error, m.numInstances): the capacity of the channel.
ErrChanCap(n) == n

\* errChan <- ... can proceed: the buffer has room (Run receives from the
\* channel only once every supervisor has returned).
CanSendError(ch, err) ==
    IF err THEN Len(ch) < ErrChanCap(numInstances) ELSE TRUE

\* The send without the test of err.
SendErrorAlways(ch, i, err) == Append(ch, i)

\* The error sent at give-up: errChan <- ... only if err != nil.
SendError(ch, i, err) == IF err THEN Append(ch, i) ELSE ch

\* A goroutine that wrote to the first record whatever its index.
StatsSlotFirst(i) == 0

\* m.instanceStats[idx]: the record the supervisor of idx writes to.
StatsSlot(i) == i

\* A delay that grows with the number of restarts.
BackoffDelayGrowing(rc) == rc * RestartBackoff

\* time.Sleep(RestartBackoff): the delay after the rc-th exit.
BackoffDelay(rc) == RestartBackoff

\* The stats update under the lock, then the test of the ceiling: give up
\* (sending the error, if any) or start the backoff delay.
SupRecord(i) ==
    /\ sup[i] = "ExitedCrashed"
    /\ mu = "free"
    /\ instanceStats' = [instanceStats EXCEPT
                           ![StatsSlot(i)].RestartCount = restartCount[i],
                           ![StatsSlot(i)].IsLive = FALSE]
    /\ IF ReachedMax(restartCount[i])
         THEN /\ CanSendError(errChan, lastErr[i])
              /\ sup' = [sup EXCEPT ![i] = "GivenUp"]
              /\ wg' = wg - 1
              /\ errChan' = SendError(errChan, i, lastErr[i])
              /\ gaveUp' = IF lastErr[i] THEN Append(gaveUp, i) ELSE gaveUp
              /\ UNCHANGED slept
         ELSE /\ sup' = [sup EXCEPT ![i] = "Backoff"]
              /\ slept' = [slept EXCEPT
                             ![i] = Append(@, BackoffDelay(restartCount[i]))]
              /\ UNCHANGED <<wg, errChan, gaveUp>>
    /\ liveFrom' = [liveFrom EXCEPT ![StatsSlot(i)] = <<>>]
    /\ UNCHANGED <<call, zeroFrom, tally, stopVars, numInstances, now, cancelled, restartCount, lastErr,
                   procVars, scrVars, emitted, crashes, mu, aggVars, runPc,
                   runResult>>

\* time.Sleep(RestartBackoff) ends.
SupBackoffDone(i) ==
    /\ sup[i] = "Backoff"
    /\ scr[i] \in {"none", "done"}
    /\ errScr[i] \in {"none", "done"}
    /\ sup' = [sup EXCEPT ![i] = "Starting"]
    /\ UNCHANGED <<call, zeroFrom, liveFrom, slept, tally, stopVars, numInstances, now, cancelled, restartCount, lastErr,
                   instanceStats, procVars, scrVars, emitted, crashes, wg, mu,
                   aggVars, runVars>>

\* ---------------------------------------------------------------- worker

\* The worker writes a line to its stdout and the scraper's Scan returns it.
WorkerEmit(i, l) ==
    /\ proc[i] = "running"
    /\ scr[i] = "scan"
    /\ emitted < MaxEmits
    /\ scr' = [scr EXCEPT ![i] = "line"]
    /\ scrLine' = [scrLine EXCEPT ![i] = l]
    /\ emitted' = emitted + 1
    /\ UNCHANGED <<call, zeroFrom, liveFrom, slept, tally, stopVars, numInstances, now, cancelled, supVars, instanceStats,
                   procVars, errScr, crashes, wg, mu, aggVars, runVars>>

\* The worker exits on its own, with status 0 or not.
WorkerExit(i, status) ==
    /\ proc[i] = "running"
    /\ proc' = [proc EXCEPT ![i] = status]
    /\ UNCHANGED <<call, zeroFrom, liveFrom, slept, tally, stopVars, numInstances, now, cancelled, supVars, instanceStats,
                   processes, spawned, scrVars, emitted, wg, mu, aggVars,
                   runVars>>

\* exec.CommandContext kills the process once the context is done.
CtxKill(i) ==
    /\ cancelled
    /\ proc[i] = "running"
    /\ proc' = [proc EXCEPT ![i] = "killed"]
    /\ UNCHANGED <<call, zeroFrom, liveFrom, slept, tally, stopVars, numInstances, now, cancelled, supVars, instanceStats,
                   processes, spawned, scrVars, emitted, crashes, wg, mu,
                   aggVars, runVars>>

\* cmd.ProcessState of the worker spawned last: nil until cmd.Wait has
\* returned, then the way the process ended.
ProcessState(i) == IF sup[i] = "Running" THEN "nil" ELSE proc[i]

\* os.ProcessState.Exited: true for a process that called exit, false for
\* one that a signal terminated.
ProcessStateExited(state) == state \in {"exit0", "exit1"}

\* if cmd.ProcessState == nil || !cmd.ProcessState.Exited()
WatcherKills(i) ==
    IF ProcessState(i) = "nil" THEN TRUE
    ELSE ~ProcessStateExited(ProcessState(i))

\* The watcher goroutine of the worker spawned last: after ctx.Done() and
\* the grace period it makes its test and calls cmd.Process.Kill().  A Kill
\* of a process that has ended changes nothing and is no step.
ForceKill(i) ==
    /\ cancelled
    /\ spawned[i] > 0
    /\ WatcherKills(i)
    /\ proc[i] = "running"
    /\ proc' = [proc EXCEPT ![i] = "killed"]
    /\ UNCHANGED <<call, zeroFrom, liveFrom, slept, tally, stopVars, numInstances, now, cancelled, supVars, instanceStats,
                   processes, spawned, scrVars, emitted, crashes, wg, mu,
                   aggVars, runVars>>

\* --------------------------------------------------------------- scrapers

\* A liveness marker that starts the record afresh.
MarkLiveAfresh(stats) == [NewInstanceStats EXCEPT !.IsLive = TRUE]

\* stats.IsLive = true
MarkLive(stats) == [stats EXCEPT !.IsLive = TRUE]

\* A count field: assigned when its regexp matches and Atoi succeeds.
FieldCount(old, match) ==
    IF match # NoMatch /\ Atoi(match[1]) # <<>> THEN Atoi(match[1])[1] ELSE old

\* A byte field that adds what it parses to what is stored.
FieldBytesAdds(old, match, saturates) ==
    IF match # NoMatch
      THEN old + Small(parseByteValue(match[1], match[2], saturates))
      ELSE old

\* A byte field: assigned parseByteValue's result when its regexp matches.
FieldBytes(old, match, saturates) ==
    IF match # NoMatch
      THEN Small(byteValues[match[1], match[2], saturates])
      ELSE old

\* parseStatsLine: the record after the line.
parseStatsLine(stats, l, saturates) ==
    [stats EXCEPT !.Connecting = FieldCount(@, l.connecting),
                  !.Connected = FieldCount(@, l.connected),
                  !.BytesUp = FieldBytes(@, l.up, saturates),
                  !.BytesDown = FieldBytes(@, l.down, saturates)]

\* A changed flag that looks at the two counts only.
statsLineChangedCounts(stats, l, saturates) ==
    \/ FieldCount(stats.Connecting, l.connecting) # stats.Connecting
    \/ FieldCount(stats.Connected, l.connected) # stats.Connected

\* parseStatsLine's result: changed is set where a field is assigned.
statsLineChanged(stats, l, saturates) ==
    \/ FieldCount(stats.Connecting, l.connecting) # stats.Connecting
    \/ FieldCount(stats.Connected, l.connected) # stats.Connected
    \/ FieldBytes(stats.BytesUp, l.up, saturates) # stats.BytesUp
    \/ FieldBytes(stats.BytesDown, l.down, saturates) # stats.BytesDown

\* m.config.Verbosity: quiet or verbose.
Verbosities == {0, 1}

\* parseInstanceOutput on one record: the record after the call, whether a
\* signal is sent to statsChanged, and what is printed: the banner, the
\* line itself, or nothing.
parseInstanceOutput(stats, l, verbosity, saturates) ==
    CASE l.kind = "live" ->
           [stats |-> MarkLive(stats), changed |-> FALSE,
            printed |-> "banner"]
      [] l.kind = "stats" ->
           [stats |-> parseStatsLine(stats, l, saturates),
            changed |-> statsLineChanged(stats, l, saturates),
            printed |-> IF verbosity >= 1 THEN "line" ELSE "none"]
      [] OTHER ->
           [stats |-> stats, changed |-> FALSE,
            printed |-> IF verbosity >= 1 THEN "line" ELSE "none"]

\* A parseInstanceOutput that did not take the lock.
ScraperNoLock == TRUE

\* m.mu.Lock() at the head of parseInstanceOutput can return.
ScraperLock == mu = "free"

\* A scraper that signals after every line.
SignalsAlways(changed) == TRUE

\* if changed { select { case m.statsChanged <- struct{}{}: default: } }
SignalsOn(changed) == changed

\* parseInstanceOutput(idx, line), up to the unlock.
ScrParse(i) ==
    /\ scr[i] = "line"
    /\ ScraperLock
    /\ \E verbosity \in Verbosities, saturates \in Builds :
         LET r == parseInstanceOutput(instanceStats[i], scrLine[i],
                                      verbosity, saturates)
         IN  /\ instanceStats' = [instanceStats EXCEPT ![i] = r.stats]
             /\ scr' = [scr EXCEPT ![i] = IF SignalsOn(r.changed)
                                             THEN "signal" ELSE "scan"]
             /\ tally' = IF r.changed THEN Tallied(tally, "changes")
                                      ELSE tally
             /\ zeroFrom' = [zeroFrom EXCEPT ![i] =
                               IF r.stats.Connected > 0 THEN <<>>
                               ELSE IF @ = <<>> THEN <<now>> ELSE @]
             /\ liveFrom' = [liveFrom EXCEPT ![i] =
                               IF ~r.stats.IsLive THEN <<>>
                               ELSE IF @ = <<>> THEN <<now>> ELSE @]
    /\ scrLine' = [scrLine EXCEPT ![i] = NoLine]
    /\ UNCHANGED <<call, slept, stopVars, numInstances, now, cancelled,
                   supVars, procVars, errScr, emitted, crashes, wg, mu,
                   aggVars, runVars>>

\* A send that is always dropped.
SendSignalNever(queued) == queued

\* The non-blocking send: queued unless the buffer is full.
SendSignal(queued) ==
    IF queued < StatsChangedCap THEN queued + 1 ELSE queued

\* A send without a default case: it waits for room in the buffer.
CanSendWhenRoom(queued) == queued < StatsChangedCap

\* The select has a default case: it returns whatever the buffer holds.
CanSend(queued) == TRUE

\* select { case m.statsChanged <- struct{}{}: default: }
ScrSignal(i) ==
    /\ scr[i] = "signal"
    /\ CanSend(statsChanged)
    /\ statsChanged' = SendSignal(statsChanged)
    /\ scr' = [scr EXCEPT ![i] = "scan"]
    /\ UNCHANGED <<call, zeroFrom, liveFrom, slept, tally, stopVars, numInstances, now, cancelled, supVars, instanceStats,
                   procVars, scrLine, errScr, emitted, crashes, wg, mu, aggPc,
                   aggFinal, aggI, acc, lastPublished, statsDone, runVars>>

\* scanner.Scan() returns false on the stdout of an exited worker.
ScrEOF(i) ==
    /\ scr[i] = "scan"
    /\ Exited(proc[i])
    /\ scr' = [scr EXCEPT ![i] = "done"]
    /\ wg' = wg - 1
    /\ UNCHANGED <<call, zeroFrom, liveFrom, slept, tally, stopVars, numInstances, now, cancelled, supVars, instanceStats,
                   procVars, scrLine, errScr, emitted, crashes, mu, aggVars,
                   runVars>>

\* The stderr scraper ends the same way; the lines it forwards change nothing.
ErrScrEOF(i) ==
    /\ errScr[i] = "scan"
    /\ Exited(proc[i])
    /\ errScr' = [errScr EXCEPT ![i] = "done"]
    /\ wg' = wg - 1
    /\ UNCHANGED <<call, zeroFrom, liveFrom, slept, tally, stopVars, numInstances, now, cancelled, supVars, instanceStats,
                   procVars, scr, scrLine, emitted, crashes, mu, aggVars,
                   runVars>>

\* -------------------------------------------------------------- aggregator

\* case <-m.statsChanged:
AggSignal ==
    /\ aggPc = "select"
    /\ statsChanged > 0
    /\ statsChanged' = statsChanged - 1
    /\ aggPc' = "publish"
    /\ aggFinal' = FALSE
    /\ UNCHANGED <<call, zeroFrom, liveFrom, slept, tally, stopVars, numInstances, now, cancelled, supVars, instanceStats,
                   procVars, scrVars, emitted, crashes, wg, mu, aggI, acc,
                   lastPublished, statsDone, runVars>>

\* case <-ctx.Done():
AggCancel ==
    /\ aggPc = "select"
    /\ cancelled
    /\ aggPc' = "publish"
    /\ aggFinal' = TRUE
    /\ UNCHANGED <<call, zeroFrom, liveFrom, slept, tally, stopVars, numInstances, now, cancelled, supVars, instanceStats,
                   procVars, scrVars, emitted, crashes, wg, mu, statsChanged,
                   aggI, acc, lastPublished, statsDone, runVars>>

\* printAndWriteStats: m.mu.Lock() and the zeroed totals.
AggLock ==
    /\ aggPc = "publish"
    /\ mu = "free"
    /\ mu' = "agg"
    /\ aggPc' = "loop"
    /\ aggI' = 0
    /\ acc' = ZeroTotals
    /\ UNCHANGED <<call, zeroFrom, liveFrom, slept, tally, stopVars, numInstances, now, cancelled, supVars, instanceStats,
                   procVars, scrVars, emitted, crashes, wg, statsChanged,
                   aggFinal, lastPublished, statsDone, runVars>>

\* The totals after one more instance.
Accumulate(a, stats) ==
    [live |-> a.live + (IF stats.IsLive THEN 1 ELSE 0),
     connecting |-> a.connecting + stats.Connecting,
     connected |-> a.connected + stats.Connected,
     up |-> a.up + stats.BytesUp,
     down |-> a.down + stats.BytesDown,
     restarts |-> a.restarts + stats.RestartCount]

\* The idle check's verdict on one instance: "start", "kill", "reset", "keep".
IdleCheck(stats) ==
    IF stats.IsLive /\ stats.Connected = 0
      THEN IF stats.LastZeroTime = ZeroTime THEN "start"
           ELSE IF now - stats.LastZeroTime > IdleTimeout THEN "kill"
           ELSE "keep"
      ELSE IF stats.Connected > 0 THEN "reset" ELSE "keep"

\* One iteration of the loop over m.instanceStats, the lock held.
AggVisit ==
    /\ aggPc = "loop"
    /\ aggI < numInstances
    /\ LET i == aggI
           stats == instanceStats[i]
           verdict == IdleCheck(stats)
       IN  /\ acc' = Accumulate(acc, stats)
           /\ instanceStats' = [instanceStats EXCEPT ![i].LastZeroTime =
                                  CASE verdict = "start" -> now
                                    [] verdict \in {"kill", "reset"} -> ZeroTime
                                    [] OTHER -> @]
           /\ proc' = IF /\ verdict = "kill"
                         /\ processes[i] # 0
                         /\ processes[i] = spawned[i]
                         /\ proc[i] = "running"
                        THEN [proc EXCEPT ![i] = "killed"]
                        ELSE proc
    /\ aggI' = aggI + 1
    /\ UNCHANGED <<call, zeroFrom, liveFrom, slept, tally, stopVars, numInstances, now, cancelled, supVars, processes, spawned,
                   scrVars, emitted, crashes, wg, mu, statsChanged, aggPc,
                   aggFinal, lastPublished, statsDone, runVars>>

\* A ctx.Done() case without its return.
AfterPublishLoops(final) == "select"

\* The aggregator after a publish: back to the select, or return.
AfterPublish(final) == IF final THEN "done" ELSE "select"

\* A close(m.statsDone) that follows every publish.
CloseAfterPublish(pc) == TRUE

\* defer close(m.statsDone): runs when aggregateAndPrintStats returns.
DeferredClose(pc) == pc = "done"

\* m.mu.Unlock(), the console line and the stats file; after the final
\* publish the goroutine returns and the deferred close(m.statsDone) runs.
AggUnlock ==
    /\ aggPc = "loop"
    /\ aggI = numInstances
    /\ mu' = "free"
    /\ lastPublished' = acc
    /\ aggPc' = AfterPublish(aggFinal)
    /\ statsDone' = DeferredClose(AfterPublish(aggFinal))
    /\ tally' = Tallied(tally, "publishes")
    /\ UNCHANGED <<call, zeroFrom, liveFrom, slept, stopVars, numInstances, now, cancelled, supVars, instanceStats,
                   procVars, scrVars, emitted, crashes, wg, statsChanged,
                   aggFinal, aggI, acc, runVars>>

\* --------------------------------------------------------------------- Run

\* m.wg.Wait() returns.
RunWait ==
    /\ runPc = "wait"
    /\ wg = 0
    /\ runPc' = "cancel"
    /\ UNCHANGED <<call, zeroFrom, liveFrom, slept, tally, stopVars, numInstances, now, cancelled, supVars, instanceStats,
                   procVars, scrVars, emitted, crashes, wg, mu, aggVars,
                   errChan, gaveUp, runResult>>

\* m.cancel()
RunCancel ==
    /\ runPc = "cancel"
    /\ cancelled' = TRUE
    /\ runPc' = "waitStats"
    /\ UNCHANGED <<call, zeroFrom, liveFrom, slept, tally, stopVars, numInstances, now, supVars, instanceStats, procVars,
                   scrVars, emitted, crashes, wg, mu, aggVars, errChan,
                   gaveUp, runResult>>

\* The non-blocking receive from errChan that decides the return value.
FirstError(ch) == IF Len(ch) > 0 THEN <<Head(ch)>> ELSE <<>>

\* <-m.statsDone, then the return.
RunReturn ==
    /\ runPc = "waitStats"
    /\ statsDone
    /\ runResult' = FirstError(errChan)
    /\ errChan' = IF Len(errChan) > 0 THEN Tail(errChan) ELSE errChan
    /\ runPc' = "returned"
    /\ UNCHANGED <<call, zeroFrom, liveFrom, slept, tally, stopVars, numInstances, now, cancelled, supVars, instanceStats,
                   procVars, scrVars, emitted, crashes, wg, mu, aggVars,
                   gaveUp>>

\* -------------------------------------------------------------------- Stop

\* if m.cancel != nil { m.cancel() }: Run has set m.cancel.
StopCancel(k) ==
    /\ stopPc[k] = "idle"
    /\ cancelled' = TRUE
    /\ stopPc' = [stopPc EXCEPT ![k] = "lock"]
    /\ UNCHANGED <<call, zeroFrom, liveFrom, slept, tally, stopI, signalled, numInstances,
                   now, supVars, instanceStats, procVars, scrVars, emitted,
                   crashes, wg, mu, aggVars, runVars>>

\* m.mu.Lock(); defer m.mu.Unlock()
StopLock(k) ==
    /\ stopPc[k] = "lock"
    /\ mu = "free"
    /\ mu' = "stop"
    /\ stopI' = 0
    /\ stopPc' = [stopPc EXCEPT ![k] = "loop"]
    /\ UNCHANGED <<call, zeroFrom, liveFrom, slept, tally, signalled, numInstances, now,
                   cancelled, supVars, instanceStats, procVars, scrVars,
                   emitted, crashes, wg, aggVars, runVars>>

\* A Stop that leaves the cmd in its slot.
StopKeeps(cmd) == cmd

\* m.processes[i] = nil
StopClears(cmd) == 0

\* One iteration of the loop over m.processes, the lock held: a cmd that is
\* not nil is sent os.Interrupt and its slot is cleared.
StopVisit(k) ==
    /\ stopPc[k] = "loop"
    /\ stopI < numInstances
    /\ IF processes[stopI] # 0
         THEN /\ signalled' = Append(signalled, <<stopI, processes[stopI]>>)
              /\ processes' = [processes EXCEPT ![stopI] = StopClears(@)]
         ELSE UNCHANGED <<signalled, processes>>
    /\ stopI' = stopI + 1
    /\ UNCHANGED <<call, zeroFrom, liveFrom, slept, tally, stopPc, numInstances, now,
                   cancelled, supVars, instanceStats, proc, spawned, scrVars,
                   emitted, crashes, wg, mu, aggVars, runVars>>

\* Stop returns: the deferred m.mu.Unlock().
StopUnlock(k) ==
    /\ stopPc[k] = "loop"
    /\ stopI = numInstances
    /\ mu' = "free"
    /\ stopPc' = [stopPc EXCEPT ![k] = "done"]
    /\ UNCHANGED <<call, zeroFrom, liveFrom, slept, tally, stopI, signalled, numInstances,
                   now, cancelled, supVars, instanceStats, procVars, scrVars,
                   emitted, crashes, wg, aggVars, runVars>>

\* ------------------------------------------------------------- environment

\* A worker that was sent os.Interrupt exits on it, with status 0 or not.
WorkerInterrupted(i) ==
    /\ \E n \in 1 .. Len(signalled) : signalled[n] = <<i, spawned[i]>>
    /\ \E status \in {"exit0", "exit1"} : WorkerExit(i, status)
    /\ UNCHANGED crashes


\* The caller's signal handler cancels the context Run was given.
ExternalCancel ==
    /\ ~cancelled
    /\ runPc # "returned"
    /\ cancelled' = TRUE
    /\ UNCHANGED <<call, zeroFrom, liveFrom, slept, tally, stopVars, numInstances, now, supVars, instanceStats, procVars,
                   scrVars, emitted, crashes, wg, mu, aggVars, runVars>>

\* An hour passes.
Tick ==
    /\ now < StartHour + MaxHours
    /\ runPc # "returned"
    /\ now' = now + 1
    /\ UNCHANGED <<call, zeroFrom, liveFrom, slept, tally, stopVars, numInstances, cancelled, supVars, instanceStats, procVars,
                   scrVars, emitted, crashes, wg, mu, aggVars, runVars>>

\* A worker crash or a failed spawn, counted against the bound.
Crash(i) ==
    /\ crashes < MaxCrashes
    /\ crashes' = crashes + 1
    /\ \/ \E status \in {"exit0", "exit1"} : WorkerExit(i, status)
       \/ SupStartFail(i)

\* The same, any number of times.
CrashFreely(i) ==
    /\ UNCHANGED crashes
    /\ \/ \E status \in {"exit0", "exit1"} : WorkerExit(i, status)
       \/ SupStartFail(i)

\* ------------------------------------------------------------ specification

\* The steps of the program's own goroutines and of exec's context watcher.
Supervise ==
    \/ \E i \in Instances : SupStart(i)
    \/ \E i \in Instances : SupWait(i)
    \/ \E i \in Instances : SupRecord(i)
    \/ \E i \in Instances : SupBackoffDone(i)
    \/ \E i \in Instances : CtxKill(i)
    \/ \E i \in Instances : ForceKill(i)
    \/ \E i \in Instances : ScrEOF(i)
    \/ \E i \in Instances : ErrScrEOF(i)
    \/ AggCancel
    \/ AggLock
    \/ AggVisit
    \/ AggUnlock
    \/ RunWait
    \/ RunCancel
    \/ RunReturn

Scrape ==
    \/ \E i \in Instances, l \in Lines : WorkerEmit(i, l)
    \/ \E i \in Instances : ScrParse(i)
    \/ \E i \in Instances : ScrSignal(i)
    \/ AggSignal

\* Workers that print, a bounded number of crashes, a caller that may cancel.
Next ==
    \/ Supervise
    \/ Scrape
    \/ \E i \in Instances : Crash(i)
    \/ ExternalCancel

\* Two instances from Run's start, their workers writing MaxEmitsShared
\* lines at most.
NextShared == Next /\ emitted' <= MaxEmitsShared

Spec == Init /\ [][NextShared]_vars

\* Silent workers that may crash any number of times.
NextSup ==
    \/ Supervise
    \/ \E i \in Instances : CrashFreely(i)
    \/ ExternalCancel

\* One instance from Run's start to the end of its supervisor.
SpecSupOne == InitFor(NumInstancesTimed) /\ call = NoCall /\ [][NextSup]_vars

\* Every instance has lost all but AttemptsLeft of the MaxRestarts workers
\* it is allowed, each with exit status 1, and has slept the backoff after
\* each: its supervisor is about to spawn the next one.
InitLastAttempts ==
    /\ numInstances = NumInstances
    /\ now = StartHour
    /\ cancelled = FALSE
    /\ sup = [i \in 0 .. (NumInstances - 1) |-> "Starting"]
    /\ restartCount = [i \in 0 .. (NumInstances - 1) |-> MaxRestarts - AttemptsLeft]
    /\ lastErr = [i \in 0 .. (NumInstances - 1) |-> TRUE]
    /\ instanceStats = [i \in 0 .. (NumInstances - 1) |->
                          [NewInstanceStats EXCEPT
                              !.RestartCount = MaxRestarts - AttemptsLeft]]
    /\ processes = [i \in 0 .. (NumInstances - 1) |->
                      StoredCmd(MaxRestarts - AttemptsLeft)]
    /\ proc = [i \in 0 .. (NumInstances - 1) |-> "exit1"]
    /\ spawned = [i \in 0 .. (NumInstances - 1) |-> MaxRestarts - AttemptsLeft]
    /\ scr = [i \in 0 .. (NumInstances - 1) |-> "done"]
    /\ scrLine = [i \in 0 .. (NumInstances - 1) |-> NoLine]
    /\ errScr = [i \in 0 .. (NumInstances - 1) |-> "done"]
    /\ emitted = 0
    /\ crashes = 0
    /\ wg = NumInstances
    /\ mu = "free"
    /\ statsChanged = 0
    /\ aggPc = "select"
    /\ aggFinal = FALSE
    /\ aggI = 0
    /\ acc = ZeroTotals
    /\ lastPublished = NoSnapshot
    /\ statsDone = FALSE
    /\ errChan = <<>>
    /\ gaveUp = <<>>
    /\ runPc = "wait"
    /\ runResult = <<>>
    /\ call = NoCall
    /\ zeroFrom = [i \in 0 .. (NumInstances - 1) |-> <<StartHour>>]
    /\ liveFrom = [i \in 0 .. (NumInstances - 1) |-> <<>>]
    /\ slept = [i \in 0 .. (NumInstances - 1) |->
                  [k \in 1 .. (MaxRestarts - AttemptsLeft) |-> BackoffDelay(k)]]
    /\ tally = NoTally
    /\ stopPc = [k \in StopCalls |-> "idle"]
    /\ stopI = 0
    /\ signalled = <<>>

\* The last attempts of every instance, and what follows them.
SpecGiveUp == InitLastAttempts /\ [][NextSup]_vars

\* One instance, with the clock.
InitTimed == InitFor(NumInstancesTimed) /\ call = NoCall

NextTimed ==
    \/ Next
    \/ Tick

SpecTimed == InitTimed /\ [][NextTimed]_vars

\* Every goroutine that can take a step eventually takes it, a sleep ends,
\* and the kill exec sends on cancellation is delivered.  Nothing is assumed
\* of the workers, of the caller or of the clock.
Fairness ==
    /\ \A i \in 0 .. (NumInstancesTimed - 1) :
         /\ WF_vars(SupStart(i))
         /\ WF_vars(SupWait(i))
         /\ WF_vars(SupRecord(i))
         /\ WF_vars(SupBackoffDone(i))
         /\ WF_vars(CtxKill(i))
         /\ WF_vars(ForceKill(i))
         /\ WF_vars(ScrParse(i))
         /\ WF_vars(ScrSignal(i))
         /\ WF_vars(ScrEOF(i))
         /\ WF_vars(ErrScrEOF(i))
    /\ WF_vars(AggSignal)
    /\ WF_vars(AggCancel)
    /\ WF_vars(AggLock)
    /\ WF_vars(AggVisit)
    /\ WF_vars(AggUnlock)
    /\ WF_vars(RunWait)
    /\ WF_vars(RunCancel)
    /\ WF_vars(RunReturn)

FairSpec == SpecTimed /\ Fairness

\* The record of a live instance whose last stats line was StatsFull.
BusyStats == parseStatsLine(MarkLive(NewInstanceStats), StatsFull, FALSE)

RECURSIVE WgStarted(_, _)
\* m.wg, from w, when k supervisors have started the scrapers of a worker.
WgStarted(w, k) == IF k = 0 THEN w ELSE WgAddScrapers(WgStarted(w, k - 1))

\* n instances whose first workers run and whose scrapers wait for output,
\* at the given hour: each record is stats, the statsChanged buffer holds
\* queued signals and published is the last snapshot.  emitted counts the
\* lines written from here on.
InitRunningAt(n, hour, stats, queued, published) ==
    /\ numInstances = n
    /\ now = hour
    /\ cancelled = FALSE
    /\ sup = [i \in 0 .. (n - 1) |-> "Running"]
    /\ restartCount = [i \in 0 .. (n - 1) |-> 0]
    /\ lastErr = [i \in 0 .. (n - 1) |-> FALSE]
    /\ instanceStats = [i \in 0 .. (n - 1) |-> stats]
    /\ processes = [i \in 0 .. (n - 1) |-> 1]
    /\ proc = [i \in 0 .. (n - 1) |-> "running"]
    /\ spawned = [i \in 0 .. (n - 1) |-> 1]
    /\ scr = [i \in 0 .. (n - 1) |-> "scan"]
    /\ scrLine = [i \in 0 .. (n - 1) |-> NoLine]
    /\ errScr = [i \in 0 .. (n - 1) |-> "scan"]
    /\ emitted = 0
    /\ crashes = 0
    /\ wg = WgStarted(n, n)
    /\ mu = "free"
    /\ statsChanged = queued
    /\ aggPc = "select"
    /\ aggFinal = FALSE
    /\ aggI = 0
    /\ acc = ZeroTotals
    /\ lastPublished = published
    /\ statsDone = FALSE
    /\ errChan = <<>>
    /\ gaveUp = <<>>
    /\ runPc = "wait"
    /\ runResult = <<>>
    /\ call = NoCall
    /\ zeroFrom = [i \in 0 .. (n - 1) |->
                     IF stats.Connected > 0 THEN <<>> ELSE <<StartHour>>]
    /\ liveFrom = [i \in 0 .. (n - 1) |->
                     IF stats.IsLive THEN <<StartHour>> ELSE <<>>]
    /\ slept = [i \in 0 .. (n - 1) |-> <<>>]
    /\ tally = NoTally
    /\ stopPc = [k \in StopCalls |-> "idle"]
    /\ stopI = 0
    /\ signalled = <<>>

\* One such instance at the first hour.
InitRunning(stats, queued, published) ==
    InitRunningAt(NumInstancesTimed, StartHour, stats, queued, published)

\* The worker has written stats lines faster than the aggregator was
\* scheduled: one slot of the statsChanged buffer is free and nothing has
\* been published.
InitQueueFull == InitRunning(BusyStats, StatsChangedCap - 1, NoSnapshot)

\* The record of a live instance without clients whose zero-timer a publish
\* started when the service was constructed.
IdleStats ==
    [parseStatsLine(MarkLive(NewInstanceStats), StatsIdle, FALSE)
        EXCEPT !.LastZeroTime = StartHour]

\* The worker has reported an idle instance and the aggregator has published
\* it and gone back to its select.
InitIdle == InitRunning(IdleStats, 0, Accumulate(ZeroTotals, IdleStats))

SpecIdle == InitIdle /\ [][NextTimed]_vars

\* The steps that remain when no worker exits on its own.
NextQueueFull ==
    \/ Scrape
    \/ \E i \in Instances : SupWait(i)
    \/ \E i \in Instances : CtxKill(i)
    \/ \E i \in Instances : ForceKill(i)
    \/ \E i \in Instances : ScrEOF(i)
    \/ \E i \in Instances : ErrScrEOF(i)
    \/ AggCancel
    \/ AggLock
    \/ AggVisit
    \/ AggUnlock
    \/ RunWait
    \/ RunCancel
    \/ RunReturn
    \/ ExternalCancel

FairSpecQueueFull == InitQueueFull /\ [][NextQueueFull]_vars /\ Fairness

\* With callers that may call Stop, from any goroutine, while Run runs or
\* after it has returned.
NextStop ==
    \/ Next
    \/ \E k \in StopCalls : StopCancel(k)
    \/ \E k \in StopCalls : StopLock(k)
    \/ \E k \in StopCalls : StopVisit(k)
    \/ \E k \in StopCalls : StopUnlock(k)
    \/ \E i \in Instances : WorkerInterrupted(i)

\* The idle instance when more than IdleTimeout has passed since the publish
\* that started its zero-timer: the next publish that finds it idle kills
\* its worker.
InitIdleLong ==
    InitRunningAt(NumInstancesTimed, StartHour + IdleTimeout + 1, IdleStats, 0,
                  Accumulate(ZeroTotals, IdleStats))

SpecStop == InitIdleLong /\ [][NextStop]_vars

\* Two instances whose workers run and write, and do not exit on their own.
InitPublish == InitRunningAt(NumInstances, StartHour, NewInstanceStats, 0, NoSnapshot)

SpecPublish == InitPublish /\ [][NextQueueFull]_vars

\* One instance whose worker may also write lines that are not stats lines,
\* the value-changing lines and the publishes counted.
InitTally == InitWith(NumInstancesTimed, ZeroTally) /\ call = NoCall

NextTally ==
    \/ Supervise
    \/ \E i \in Instances, l \in Lines \cup {OtherLine} : WorkerEmit(i, l)
    \/ \E i \in Instances : ScrParse(i)
    \/ \E i \in Instances : ScrSignal(i)
    \/ AggSignal
    \/ \E i \in Instances : Crash(i)
    \/ ExternalCancel

SpecTally == InitTally /\ [][NextTally]_vars

\* ------------------------------------------------------------ Run's start

\* Run before its loop over the instances: no goroutine is started, the
\* WaitGroup is empty.
InitStart ==
    /\ numInstances = NumInstances
    /\ now = StartHour
    /\ cancelled = FALSE
    /\ sup = [i \in 0 .. (NumInstances - 1) |-> "NotStarted"]
    /\ restartCount = [i \in 0 .. (NumInstances - 1) |-> 0]
    /\ lastErr = [i \in 0 .. (NumInstances - 1) |-> FALSE]
    /\ instanceStats = [i \in 0 .. (NumInstances - 1) |-> NewInstanceStats]
    /\ processes = [i \in 0 .. (NumInstances - 1) |-> 0]
    /\ proc = [i \in 0 .. (NumInstances - 1) |-> "none"]
    /\ spawned = [i \in 0 .. (NumInstances - 1) |-> 0]
    /\ scr = [i \in 0 .. (NumInstances - 1) |-> "none"]
    /\ scrLine = [i \in 0 .. (NumInstances - 1) |-> NoLine]
    /\ errScr = [i \in 0 .. (NumInstances - 1) |-> "none"]
    /\ emitted = 0
    /\ crashes = 0
    /\ wg = 0
    /\ mu = "free"
    /\ statsChanged = 0
    /\ aggPc = "notStarted"
    /\ aggFinal = FALSE
    /\ aggI = 0
    /\ acc = ZeroTotals
    /\ lastPublished = NoSnapshot
    /\ statsDone = FALSE
    /\ errChan = <<>>
    /\ gaveUp = <<>>
    /\ runPc = "start"
    /\ runResult = <<>>
    /\ call = NoCall
    /\ zeroFrom = [i \in 0 .. (NumInstances - 1) |-> <<StartHour>>]
    /\ liveFrom = [i \in 0 .. (NumInstances - 1) |-> <<>>]
    /\ slept = [i \in 0 .. (NumInstances - 1) |-> <<>>]
    /\ tally = NoTally
    /\ stopPc = [k \in StopCalls |-> "idle"]
    /\ stopI = 0
    /\ signalled = <<>>

\* The index i of Run's for loop: the supervisors of 0 .. i-1 are started.
RunIndex == Cardinality({i \in Instances : sup[i] # "NotStarted"})

\* fmt.Errorf("failed to create instance directory: %w", err)
MkdirError == <<"mkdir">>

\* os.MkdirAll succeeds: m.wg.Add(1) and the go statement of the supervisor.
RunMkdirAll ==
    /\ runPc = "start"
    /\ RunIndex < numInstances
    /\ sup' = [sup EXCEPT ![RunIndex] = "Starting"]
    /\ wg' = wg + 1
    /\ UNCHANGED <<call, zeroFrom, liveFrom, slept, tally, stopVars,
                   numInstances, now, cancelled, restartCount, lastErr,
                   instanceStats, procVars, scrVars, emitted, crashes, mu,
                   aggVars, runVars>>

\* os.MkdirAll fails: Run returns the error from inside its loop.
RunMkdirAllFails ==
    /\ runPc = "start"
    /\ RunIndex < numInstances
    /\ runPc' = "returned"
    /\ runResult' = MkdirError
    /\ UNCHANGED <<call, zeroFrom, liveFrom, slept, tally, stopVars,
                   numInstances, now, cancelled, supVars, instanceStats,
                   procVars, scrVars, emitted, crashes, wg, mu, aggVars,
                   errChan, gaveUp>>

\* go m.aggregateAndPrintStats(ctx), after the loop; Run goes on to m.wg.Wait().
RunGoAggregate ==
    /\ runPc = "start"
    /\ RunIndex = numInstances
    /\ aggPc' = "select"
    /\ runPc' = "wait"
    /\ UNCHANGED <<call, zeroFrom, liveFrom, slept, tally, stopVars,
                   numInstances, now, cancelled, supVars, instanceStats,
                   procVars, scrVars, emitted, crashes, wg, mu, statsChanged,
                   aggFinal, aggI, acc, lastPublished, statsDone, errChan,
                   gaveUp, runResult>>

\* Run from its first statement, with silent workers and a bounded number of
\* crashes.
NextStart ==
    \/ RunMkdirAll
    \/ RunMkdirAllFails
    \/ RunGoAggregate
    \/ Supervise
    \/ \E i \in Instances : Crash(i)
    \/ ExternalCancel

SpecStart == InitStart /\ [][NextStart]_vars

\* ------------------------------------------- functions applied on their own

\* Everything but call.
mainVars == <<zeroFrom, liveFrom, slept, tally, stopVars, numInstances, now, cancelled, supVars, instanceStats, procVars,
              scrVars, emitted, crashes, wg, mu, aggVars, runVars>>

\* A function is applied to inputs drawn when the behaviour starts: call
\* holds the function's name, its inputs and the results of its successive
\* applications.

\* A count of more than MaxIntDigits digits.
LongCount == [n \in 1 .. (MaxIntDigits + 1) |-> "9"]

\* The stats lines given to parseInstanceOutput: each regexp finds nothing
\* or one of a few texts.  With all four first texts the line is
\* "[STATS] Connecting: 3 Connected: 5 Up: 1.5 MB Down: 0 B".
ParseStatsLines ==
    [kind : {"stats"},
     connecting : {NoMatch, <<<<"3">>>>},
     connected : {NoMatch, <<<<"5">>>>, <<LongCount>>},
     up : {NoMatch, <<<<"1", ".", "5">>, "MB">>,
           <<<<"1", ".", "2", ".", "3">>, "KB">>},
     down : {NoMatch, <<<<"0">>, "B">>, <<<<"2">>, "KB">>}]

ParseLines == ParseStatsLines \cup {LiveLine, OtherLine}

\* The records parseInstanceOutput finds stored: those the lines can leave.
ParseRecords ==
    [IsLive : BOOLEAN, Connecting : {0, 3}, Connected : {0, 5},
     BytesUp : {0, 1572864}, BytesDown : {0, 2048}, RestartCount : {0},
     LastZeroTime : {ZeroTime}]

\* A scraper that reads the same line twice in a row.
MaxRepeats == 2

ParseOutputInputs ==
    [fn : {"parseInstanceOutput"},
     in : [stats : ParseRecords, line : ParseLines, verbosity : Verbosities,
           saturates : Builds],
     out : {<<>>}]

\* parseInstanceOutput on the record as the call before left it, with the
\* same line.
ParseOutputCall ==
    /\ call.fn = "parseInstanceOutput"
    /\ Len(call.out) < MaxRepeats
    /\ LET stats == IF call.out = <<>> THEN call.in.stats
                    ELSE call.out[Len(call.out)].stats
       IN  call' = [call EXCEPT !.out =
                      Append(@, parseInstanceOutput(stats, call.in.line,
                                                    call.in.verbosity,
                                                    call.in.saturates))]
    /\ UNCHANGED mainVars

ParseByteValueInputs ==
    [fn : {"parseByteValue"},
     in : [numStr : NumTokens, unit : Units, saturates : Builds],
     out : {<<>>}]

\* parseByteValue(numStr, unit)
ParseByteValueCall ==
    /\ call.fn = "parseByteValue"
    /\ call.out = <<>>
    /\ call' = [call EXCEPT !.out = <<parseByteValue(call.in.numStr,
                                                     call.in.unit,
                                                     call.in.saturates)>>]
    /\ UNCHANGED mainVars

\* Bytes per second in one Mbps.
BytesPerSecondToMbps == 125000

\* A quota with no floor of one client.
clientsPerInstanceFloor(maxClients, n) == maxClients \div n

\* Run: clientsPerInstance := max(m.config.MaxClients/m.numInstances, 1)
clientsPerInstance(maxClients, n) ==
    IF maxClients \div n > 1 THEN maxClients \div n ELSE 1

\* Run: bandwidthPerInstance, the float64 num / den in Mbps; -1 when the
\* total is not positive.
bandwidthPerInstance(total, n) ==
    IF total > 0 THEN [num |-> total, den |-> n * BytesPerSecondToMbps]
    ELSE [num |-> -1, den |-> 1]

RECURSIVE Itoa(_)
\* strconv.Itoa of a natural number.
Itoa(v) ==
    IF v < 10 THEN <<DigitChars[v + 1]>>
    ELSE Itoa(v \div 10) \o <<DigitChars[(v % 10) + 1]>>

\* fmt.Sprintf("%.2f", x) for x = num / den > 0: x rounded to the nearest
\* hundredth, written with two decimals.  The inputs of the model are not
\* halfway between two hundredths.
Sprintf2f(x) ==
    LET hundredths == 100 * (x.num \div x.den)
                        + (200 * (x.num % x.den) + x.den) \div (2 * x.den)
    IN  Itoa(hundredths \div 100) \o <<".">>
          \o <<DigitChars[((hundredths % 100) \div 10) + 1],
               DigitChars[(hundredths % 10) + 1]>>

\* runInstance: the texts after -m and -b on the worker's command line.
runInstanceArgs(maxClients, bandwidthMbps) ==
    [m |-> Itoa(maxClients),
     b |-> IF bandwidthMbps.num > 0 THEN Sprintf2f(bandwidthMbps)
           ELSE <<"-", "1">>]

\* Spawns of one instance in a run: the first and a restart.
MaxSpawns == 2

\* The configurations Run is given: m.config.MaxClients, m.numInstances and
\* m.config.BandwidthBytesPerSecond (0 is unlimited).
RunInstanceInputs ==
    [fn : {"runInstance"},
     in : [MaxClients : {1, 2, 50, 99, 100, 1000},
           numInstances : {1, 2, 3, 7, 32},
           BandwidthBytesPerSecond : {0, 1, 125000, 1250000, 5000000,
                                      125000000}],
     out : {<<>>}]

\* One more turn of a supervisor's loop: runInstance with the quotas Run
\* computed before the loop.
RunInstanceCall ==
    /\ call.fn = "runInstance"
    /\ Len(call.out) < MaxSpawns
    /\ call' = [call EXCEPT !.out =
                  Append(@, runInstanceArgs(
                      clientsPerInstance(call.in.MaxClients,
                                         call.in.numInstances),
                      bandwidthPerInstance(call.in.BandwidthBytesPerSecond,
                                           call.in.numInstances)))]
    /\ UNCHANGED mainVars

\* The target number of clients of one instance, and the most instances.
ClientsPerInstance == 50
MaxInstances == 32

\* CalculateInstances(maxClients)
CalculateInstances(maxClients) ==
    LET instances == maxClients \div ClientsPerInstance
    IN  IF instances < 1 THEN 1
        ELSE IF instances > MaxInstances THEN MaxInstances
        ELSE instances

\* runStart in multi-instance mode: the --instances flag, or
\* CalculateInstances of the --max-clients flag when it is not positive.
runStartInstances(flagInstances, flagMaxClients) ==
    IF flagInstances <= 0 THEN CalculateInstances(flagMaxClients)
    ELSE flagInstances

\* The flags given with --multi-instance: --max-clients within the range
\* LoadOrCreate accepts, --instances absent (0) or 3.
RunStartInputs ==
    [fn : {"runStart"},
     in : [maxClients : {1, 50, 99, 100, 150, 200, 400, 1000},
           numInstances : {0, 3}],
     out : {<<>>}]

\* runStart up to the start of the service: the number of instances given
\* to NewMultiService and the client quota Run computes for each.
RunStartCall ==
    /\ call.fn = "runStart"
    /\ call.out = <<>>
    /\ LET instances == runStartInstances(call.in.numInstances,
                                          call.in.maxClients)
       IN  call' = [call EXCEPT !.out =
                      <<[instances |-> instances,
                         clients |-> clientsPerInstance(call.in.maxClients,
                                                        instances)]>>]
    /\ UNCHANGED mainVars

\* Package config.  A bandwidth in Mbps is counted in tenths of a Mbps: 40.0
\* is 400 and the marker -1.0 is -10.
DefaultMaxClients == 50
DefaultBandwidthMbps == 400
MaxClientsLimit == 1000
UnlimitedBandwidth == -10

\* int(bandwidthMbps * 1000 * 1000 / 8)
MbpsToBytesPerSecond(bandwidthMbps) == (bandwidthMbps * 100000) \div 8

\* A field of the psiphon config file that is absent: a nil *int.
Nil == <<>>

\* A test that keeps the downstream limit when it is the larger one.
KeepsLarger(minPositive, downstream) ==
    minPositive = 0 \/ downstream > minPositive

\* if minPositive == 0 || *Downstream < minPositive
KeepsSmaller(minPositive, downstream) ==
    minPositive = 0 \/ downstream < minPositive

\* LoadOrCreate returned an error.
Failed == [err |-> TRUE]

\* LoadOrCreate from "Resolve max clients" on, for a data directory, a key
\* and a psiphon config file that can be read: opts are the Options,
\* inproxyConfig the three fields decoded from the file.
LoadOrCreate(opts, inproxyConfig) ==
    LET fromConfig ==
            IF opts.MaxClients = 0 /\ inproxyConfig.InproxyMaxClients # Nil
              THEN inproxyConfig.InproxyMaxClients[1]
              ELSE opts.MaxClients
        maxClients ==
            IF fromConfig = 0 THEN DefaultMaxClients ELSE fromConfig
        upstream == inproxyConfig.InproxyLimitUpstreamBytesPerSecond
        downstream == inproxyConfig.InproxyLimitDownstreamBytesPerSecond
        hasUpstream == upstream # Nil
        hasDownstream == downstream # Nil
        minUpstream == IF hasUpstream /\ upstream[1] > 0 THEN upstream[1] ELSE 0
        minPositive ==
            IF /\ hasDownstream
               /\ downstream[1] > 0
               /\ KeepsSmaller(minUpstream, downstream[1])
              THEN downstream[1]
              ELSE minUpstream
        Config(bandwidthBytesPerSecond) ==
            [err |-> FALSE, MaxClients |-> maxClients,
             BandwidthBytesPerSecond |-> bandwidthBytesPerSecond]
    IN  IF maxClients < 1 \/ maxClients > MaxClientsLimit THEN Failed
        ELSE IF opts.BandwidthSet
          THEN IF /\ opts.BandwidthMbps # UnlimitedBandwidth
                  /\ opts.BandwidthMbps < 10
                 THEN Failed
               ELSE IF opts.BandwidthMbps = UnlimitedBandwidth
                 THEN Config(0)
               ELSE Config(MbpsToBytesPerSecond(opts.BandwidthMbps))
        ELSE IF hasUpstream /\ upstream[1] < 0 THEN Failed
        ELSE IF hasDownstream /\ downstream[1] < 0 THEN Failed
        ELSE IF minPositive > 0 THEN Config(minPositive)
        ELSE IF hasUpstream \/ hasDownstream THEN Config(0)
        ELSE Config(MbpsToBytesPerSecond(DefaultBandwidthMbps))

\* The options and the config files LoadOrCreate is given: flags absent
\* (the zero values), in range and out of range; fields of the file absent,
\* zero, in range and out of range.
LoadOrCreateInputs ==
    [fn : {"LoadOrCreate"},
     in : [opts : [MaxClients : {0, -1, 123, 1001},
                   BandwidthSet : BOOLEAN,
                   BandwidthMbps : {UnlimitedBandwidth, 5, 100, 400}],
           file : [InproxyMaxClients : {Nil, <<0>>, <<88>>, <<2000>>},
                   InproxyLimitUpstreamBytesPerSecond :
                       {Nil, <<-1>>, <<0>>, <<900>>},
                   InproxyLimitDownstreamBytesPerSecond :
                       {Nil, <<0>>, <<700>>, <<1000>>}]],
     out : {<<>>}]

\* LoadOrCreate(opts)
LoadOrCreateCall ==
    /\ call.fn = "LoadOrCreate"
    /\ call.out = <<>>
    /\ call' = [call EXCEPT !.out =
                  <<LoadOrCreate(call.in.opts, call.in.file)>>]
    /\ UNCHANGED mainVars

\* The node key.  A byte is a number below 256; a base64 text is the
\* sequence of the values of its characters in the standard alphabet, the
\* padding character "=" being Pad.
PrivateKeySize == 64
SeedSize == 32
Pad == 64

\* The bytes of whole and trailing groups of base64 characters; the unused
\* bits of a trailing group are dropped.
RECURSIVE DecodeGroups(_)
DecodeGroups(text) ==
    IF Len(text) < 2 THEN <<>>
    ELSE LET b1 == text[1] * 4 + text[2] \div 16
         IN  IF Len(text) = 2 THEN <<b1>>
             ELSE LET b2 == (text[2] % 16) * 16 + text[3] \div 4
                  IN  IF Len(text) = 3 THEN <<b1, b2>>
                      ELSE <<b1, b2, (text[3] % 4) * 64 + text[4]>>
                               \o DecodeGroups(SubSeq(text, 5, Len(text)))

\* base64.RawStdEncoding.EncodeToString
RECURSIVE EncodeRaw(_)
EncodeRaw(bytes) ==
    IF Len(bytes) = 0 THEN <<>>
    ELSE LET c1 == bytes[1] \div 4
             r1 == (bytes[1] % 4) * 16
         IN  IF Len(bytes) = 1 THEN <<c1, r1>>
             ELSE LET c2 == r1 + bytes[2] \div 16
                      r2 == (bytes[2] % 16) * 4
                  IN  IF Len(bytes) = 2 THEN <<c1, c2, r2>>
                      ELSE <<c1, c2, r2 + bytes[3] \div 64, bytes[3] % 64>>
                               \o EncodeRaw(SubSeq(bytes, 4, Len(bytes)))

\* base64.StdEncoding.EncodeToString: padded to whole groups.
EncodeStd(bytes) ==
    LET raw == EncodeRaw(bytes)
    IN  raw \o [j \in 1 .. ((4 - (Len(raw) % 4)) % 4) |-> Pad]

\* base64.RawStdEncoding.DecodeString: <<bytes>>, or <<>> for an error.
DecodeRaw(text) ==
    IF (\E j \in 1 .. Len(text) : text[j] = Pad) \/ Len(text) % 4 = 1
      THEN <<>>
      ELSE <<DecodeGroups(text)>>

\* base64.StdEncoding.DecodeString: <<bytes>>, or <<>> for an error.
DecodeStd(text) ==
    LET n == Len(text)
        pads == IF n >= 2 /\ text[n] = Pad /\ text[n - 1] = Pad THEN 2
                ELSE IF n >= 1 /\ text[n] = Pad THEN 1
                ELSE 0
        body == SubSeq(text, 1, n - pads)
    IN  IF n % 4 # 0 \/ (\E j \in 1 .. Len(body) : body[j] = Pad)
          THEN <<>>
          ELSE <<DecodeGroups(body)>>

\* Stand-ins for the derivations whose values the checks do not depend
\* on: the seed HKDF derives from the mnemonic of entropy e, and the public
\* key ed25519 computes from a seed.
SeedOf(e) == [j \in 1 .. SeedSize |-> (e * 97 + j * 31) % 256]
PublicOf(seed) == [j \in 1 .. SeedSize |-> (seed[j] * 7 + j + 13) % 256]

\* ed25519.PrivateKey.Public(): the last 32 bytes of the private key.
Public(privateKey) == SubSeq(privateKey, SeedSize + 1, PrivateKeySize)

\* crypto.DeriveKeyPairFromMnemonic: ed25519.NewKeyFromSeed is the seed
\* followed by its public key.
DeriveKeyPairFromMnemonic(e) ==
    LET privateKey == SeedOf(e) \o PublicOf(SeedOf(e))
    IN  [PrivateKey |-> privateKey, PublicKey |-> Public(privateKey)]

\* crypto.ParsePrivateKey: <<keyPair>>, or <<>> for an error.
ParsePrivateKey(privateKeyBytes) ==
    IF Len(privateKeyBytes) # PrivateKeySize THEN <<>>
    ELSE <<[PrivateKey |-> privateKeyBytes,
            PublicKey |-> Public(privateKeyBytes)]>>

\* The key file: absent, a text that is not JSON, or the JSON of a
\* persistedKey.
NoKeyFile == [kind |-> "missing"]
NotJSON == [kind |-> "text"]
KeyFile(mnemonic, privateKeyBase64) ==
    [kind |-> "json", mnemonic |-> mnemonic,
     privateKeyBase64 |-> privateKeyBase64]

\* The first half of loadOrCreateKey: <<keyPair>> if the file is read,
\* unmarshalled, its key is not empty, decodes without padding or else with
\* padding, and parses; <<>> otherwise.
LoadKey(file) ==
    IF file.kind # "json" THEN <<>>
    ELSE IF file.privateKeyBase64 = <<>> THEN <<>>
    ELSE LET raw == DecodeRaw(file.privateKeyBase64)
             decoded == IF raw = <<>> THEN DecodeStd(file.privateKeyBase64)
                        ELSE raw
         IN  IF decoded = <<>> THEN <<>> ELSE ParsePrivateKey(decoded[1])

\* A key persisted without its second half.
EncodeKeySeed(privateKey) == EncodeRaw(SubSeq(privateKey, 1, SeedSize))

\* base64.RawStdEncoding.EncodeToString(keyPair.PrivateKey)
EncodeKey(privateKey) == EncodeRaw(privateKey)

\* What os.WriteFile does: it writes the file, fails before it has opened
\* it, or fails having truncated it.
WriteOutcomes == {"written", "refused", "truncated"}

\* loadOrCreateKey on a data directory that holds file, with the entropy
\* the generator draws and the outcome of the write, if it comes to them:
\* the key pair and the text returned, or an error, and the file left.
loadOrCreateKey(file, e, write) ==
    LET loaded == LoadKey(file)
        keyPair == DeriveKeyPairFromMnemonic(e)
        privateKeyBase64 == EncodeKey(keyPair.PrivateKey)
    IN  IF loaded # <<>>
          THEN [err |-> FALSE, keyPair |-> loaded,
                privateKeyBase64 |-> file.privateKeyBase64,
                before |-> file, after |-> file]
          ELSE IF write = "written"
          THEN [err |-> FALSE, keyPair |-> <<keyPair>>,
                privateKeyBase64 |-> privateKeyBase64,
                before |-> file, after |-> KeyFile(e, privateKeyBase64)]
          ELSE [err |-> TRUE, keyPair |-> <<>>, privateKeyBase64 |-> <<>>,
                before |-> file,
                after |-> IF write = "refused" THEN file ELSE NotJSON]

\* Keys the generator can draw, and starts of the program on one data
\* directory.
MaxKeys == 2
MaxLoads == 3

\* The data directories the program is started on: without a key file, with
\* one that is not JSON, with an empty key, with a key that is not base64,
\* with a key of 63 bytes, with a seed alone, and with a whole key written
\* without padding or with padding.
LoadOrCreateKeyInputs ==
    [fn : {"loadOrCreateKey"},
     in : [file : {NoKeyFile, NotJSON, KeyFile(0, <<>>),
                   KeyFile(0, <<1, Pad, 2, 3>>),
                   KeyFile(1, EncodeRaw(SubSeq(
                       DeriveKeyPairFromMnemonic(1).PrivateKey, 1,
                       PrivateKeySize - 1))),
                   KeyFile(1, EncodeRaw(SeedOf(1))),
                   KeyFile(1, EncodeRaw(
                       DeriveKeyPairFromMnemonic(1).PrivateKey)),
                   KeyFile(0, EncodeStd(
                       DeriveKeyPairFromMnemonic(MaxKeys).PrivateKey))}],
     out : {<<>>}]

\* One more start of the program on the data directory as the start before
\* left it.
LoadOrCreateKeyCall ==
    /\ call.fn = "loadOrCreateKey"
    /\ Len(call.out) < MaxLoads
    /\ LET file == IF call.out = <<>> THEN call.in.file
                   ELSE call.out[Len(call.out)].after
       IN  \E e \in 1 .. MaxKeys, write \in WriteOutcomes :
               call' = [call EXCEPT !.out =
                          Append(@, loadOrCreateKey(file, e, write))]
    /\ UNCHANGED mainVars

\* The worker's two streams.
Streams == {"stdout", "stderr"}

\* A runInstance whose two scrapers both call parseInstanceOutput.
runInstanceScanParsesBoth(stream, stats, l, verbosity, saturates) ==
    parseInstanceOutput(stats, l, verbosity, saturates)

\* The two scraper loops of runInstance on one line of a stream: a stdout
\* line goes to parseInstanceOutput, a stderr line is written to os.Stderr
\* with the instance prefix and nothing else is done with it.
runInstanceScan(stream, stats, l, verbosity, saturates) ==
    IF stream = "stdout"
      THEN parseInstanceOutput(stats, l, verbosity, saturates)
      ELSE [stats |-> stats, changed |-> FALSE, printed |-> "line"]

ScanInputs ==
    [fn : {"runInstanceScan"},
     in : [stream : Streams, stats : {NewInstanceStats, BusyStats},
           line : Lines \cup {OtherLine}, verbosity : Verbosities,
           saturates : Builds],
     out : {<<>>}]

\* One line of one stream of a worker goes through its scraper.
ScanCall ==
    /\ call.fn = "runInstanceScan"
    /\ call.out = <<>>
    /\ call' = [call EXCEPT !.out =
                  <<runInstanceScan(call.in.stream, call.in.stats,
                                    call.in.line, call.in.verbosity,
                                    call.in.saturates)>>]
    /\ UNCHANGED mainVars

RECURSIVE TenTo(_)
\* 10^d
TenTo(d) == IF d = 0 THEN 1 ELSE 10 * TenTo(d - 1)

\* The psiphon config file sets none of the three fields.
NoInproxyConfig ==
    [InproxyMaxClients |-> Nil,
     InproxyLimitUpstreamBytesPerSecond |-> Nil,
     InproxyLimitDownstreamBytesPerSecond |-> Nil]

\* The worker's start-up on the -m and -b texts of its command line: the
\* flags are parsed (an int and a float64) and LoadOrCreate validates them,
\* the bandwidth as a flag that is set.  TRUE if the worker accepts them.
WorkerAccepts(args) ==
    LET m == Atoi(args.m)
        maxClients == IF m[1] = 0 THEN DefaultMaxClients ELSE m[1]
        unlimited == args.b = <<"-", "1">>
        b == ParseFloat(args.b)
    IN  /\ m # <<>>
        /\ ~(maxClients < 1 \/ maxClients > MaxClientsLimit)
        /\ IF unlimited THEN TRUE
           ELSE /\ b # <<>>
                /\ ~(b[1].t < TenTo(b[1].d))

\* The flags of the parent (the bandwidth in tenths of a Mbps, given with
\* -b) and the number of instances.
SpawnArgsInputs ==
    [fn : {"spawnArgs"},
     in : [MaxClients : {1, 50, 1000, 1001},
           BandwidthMbps : {UnlimitedBandwidth, 5, 10, 50, 400},
           numInstances : {1, 2, 3, MaxInstances}],
     out : {<<>>}]

\* The parent from its flags to the spawn of a worker: LoadOrCreate, the
\* quotas of Run, the command line of runInstance, and the worker's own
\* start-up on that command line.
SpawnArgsCall ==
    /\ call.fn = "spawnArgs"
    /\ call.out = <<>>
    /\ LET cfg == LoadOrCreate([MaxClients |-> call.in.MaxClients,
                                BandwidthSet |-> TRUE,
                                BandwidthMbps |-> call.in.BandwidthMbps],
                               NoInproxyConfig)
           args == runInstanceArgs(
                       clientsPerInstance(cfg.MaxClients,
                                          call.in.numInstances),
                       bandwidthPerInstance(cfg.BandwidthBytesPerSecond,
                                            call.in.numInstances))
       IN  call' = [call EXCEPT !.out =
                      IF cfg.err THEN <<[spawned |-> FALSE]>>
                      ELSE <<[spawned |-> TRUE, args |-> args,
                              accepted |-> WorkerAccepts(args)]>>]
    /\ UNCHANGED mainVars

CallInputs ==
    ParseOutputInputs \cup ParseByteValueInputs \cup RunInstanceInputs
        \cup RunStartInputs \cup LoadOrCreateInputs
        \cup LoadOrCreateKeyInputs \cup ScanInputs \cup SpawnArgsInputs

\* The functions of the package that are applied on their own.
NextCalls ==
    \/ ParseOutputCall
    \/ ParseByteValueCall
    \/ RunInstanceCall
    \/ RunStartCall
    \/ LoadOrCreateCall
    \/ LoadOrCreateKeyCall
    \/ ScanCall
    \/ SpawnArgsCall

InitCalls == InitFor(NumInstancesTimed) /\ call \in CallInputs

SpecCalls == InitCalls /\ [][NextCalls]_vars

\* ------------------------------------------------------------------ claims

Terminal(i) == sup[i] \in {"ExitedClean", "GivenUp"}

\* C1: an instance is spawned at most MaxRestarts workers; once its restart
\* count has reached MaxRestarts its supervisor is giving up or has given up,
\* its last worker has exited, and no further worker is spawned.
C1_AtMostMaxRestartsSpawns ==
    \A i \in Instances :
        /\ spawned[i] <= MaxRestarts
        /\ restartCount[i] >= MaxRestarts =>
             /\ sup[i] \in {"ExitedCrashed", "GivenUp"}
             /\ proc[i] # "running"
        /\ sup[i] = "GivenUp" => restartCount[i] = MaxRestarts

\* An instance that gave up after MaxRestarts workers, without cancellation.
C1_Witness ==
    \E i \in Instances :
        sup[i] = "GivenUp" /\ spawned[i] = MaxRestarts /\ ~cancelled

\* In this step the supervisor of i sees runInstance return (a worker exit
\* or a failed spawn) while the context is not cancelled.
ObservedCrash(i) ==
    /\ ~cancelled
    /\ sup[i] \in {"Starting", "Running"}
    /\ sup'[i] \notin {"Starting", "Running"}

\* What C10 asks of every step.
C10_Step ==
    \A i \in Instances :
      /\ restartCount'[i] =
           IF ObservedCrash(i) THEN restartCount[i] + 1 ELSE restartCount[i]
      /\ restartCount'[i] <= MaxRestarts
      /\ instanceStats'[i].RestartCount \in
           {instanceStats[i].RestartCount, restartCount[i]}
      /\ instanceStats'[i].RestartCount >= instanceStats[i].RestartCount
      /\ instanceStats'[i].RestartCount <= restartCount'[i]

\* C10: restartCount (the supervisor's and the one in InstanceStats) never
\* decreases, grows by exactly one for each worker exit or failed spawn seen
\* while no cancellation is asserted and by nothing else, and never exceeds
\* MaxRestarts.
C10_RestartCountSteps ==
    ~ENABLED (NextSup /\ ~C10_Step)

\* An instance whose recorded restart count is at the ceiling.
C10_Witness ==
    \E i \in Instances :
        /\ instanceStats[i].RestartCount = MaxRestarts
        /\ restartCount[i] = MaxRestarts

\* C3 as stated: a supervisor in its backoff delay under cancellation does
\* not re-enter Starting.
C3_NoStartingAfterCancelledBackoff ==
    [][\A i \in Instances :
         (cancelled /\ sup[i] = "Backoff") => sup'[i] # "Starting"]_vars

\* What C3 asks of every step.
C3_Step ==
    \A i \in Instances :
      (cancelled /\ sup[i] \in {"Backoff", "Starting"}) =>
         /\ spawned'[i] = spawned[i]
         /\ proc'[i] = proc[i]
         /\ proc[i] # "running"
         /\ restartCount'[i] = restartCount[i]
         /\ sup[i] = "Backoff" => sup'[i] \in {"Backoff", "Starting"}
         /\ sup[i] = "Starting" => sup'[i] \in {"Starting", "ExitedClean"}

\* C3 as amended: a supervisor in its backoff delay under cancellation
\* re-enters Starting once the delay ends, the start is refused, and it ends
\* ExitedClean; no worker process is spawned and its restart count is not
\* incremented.
C3_NoSpawnAfterCancelledBackoff ==
    ~ENABLED (NextSup /\ ~C3_Step)

\* A supervisor that was in its backoff delay when the context was cancelled
\* and has stopped: it ended clean after at least one crash.
C3_Witness ==
    \E i \in Instances :
        /\ sup[i] = "ExitedClean"
        /\ restartCount[i] >= 1
        /\ spawned[i] = restartCount[i]
        /\ proc[i] \in {"exit0", "exit1"}

GivesUp(i) == sup[i] # "GivenUp" /\ sup'[i] = "GivenUp"

\* What C8 asks of every step.
C8_Step ==
    \A i \in Instances :
      /\ GivesUp(i) =>
           /\ cancelled' = cancelled
           /\ \A j \in Instances \ {i} :
                /\ proc'[j] = proc[j]
                /\ processes'[j] = processes[j]
                /\ instanceStats'[j] = instanceStats[j]
                /\ restartCount'[j] = restartCount[j]
                /\ sup'[j] = sup[j]
      /\ (sup[i] = "GivenUp" /\ ~cancelled) =>
           \A j \in Instances \ {i} :
                /\ (sup[j] = "Starting" /\ mu = "free") => ENABLED SupStart(j)
                /\ (sup[j] = "Starting" /\ sup'[j] = "Running") =>
                     proc'[j] = "running"

\* C8: the step in which an instance reaches GivenUp leaves the cancellation
\* signal, every other instance's worker process, process slot, InstanceStats,
\* restart count and supervisor unchanged; and next to an instance that has
\* given up, a supervisor whose backoff has elapsed can start its next worker.
C8_GiveUpFrame ==
    ~ENABLED (NextSup /\ ~C8_Step)

\* One instance has given up and another, which has crashed before, is
\* running a worker.
C8_Witness ==
    \E i, j \in Instances :
        /\ sup[i] = "GivenUp"
        /\ ~cancelled
        /\ sup[j] = "Running"
        /\ proc[j] = "running"
        /\ restartCount[j] > 0

RECURSIVE SumTo(_, _)
\* f[0] + ... + f[k]
SumTo(f, k) == IF k < 0 THEN 0 ELSE f[k] + SumTo(f, k - 1)

\* The sums of the current per-instance values over the instances below k.
TotalsBelow(k) ==
    [live |-> SumTo([i \in Instances |->
                       IF instanceStats[i].IsLive THEN 1 ELSE 0], k - 1),
     connecting |-> SumTo([i \in Instances |-> instanceStats[i].Connecting], k - 1),
     connected |-> SumTo([i \in Instances |-> instanceStats[i].Connected], k - 1),
     up |-> SumTo([i \in Instances |-> instanceStats[i].BytesUp], k - 1),
     down |-> SumTo([i \in Instances |-> instanceStats[i].BytesDown], k - 1),
     restarts |-> SumTo([i \in Instances |-> instanceStats[i].RestartCount], k - 1)]

ExactTotals == TotalsBelow(numInstances)

C4_FinalFlushIsFinalState ==
    runPc = "returned" => lastPublished = ExactTotals

\* Every supervisor and every scraper has terminated.
AllTasksDone ==
    \A i \in Instances :
        /\ Terminal(i)
        /\ scr[i] \in {"none", "done"}
        /\ errScr[i] \in {"none", "done"}

C9_ShutdownCompletes ==
    cancelled ~>
        /\ runPc = "returned"
        /\ \A i \in 0 .. (NumInstancesTimed - 1) :
             proc[i] # "running" /\ Terminal(i)

\* Run has returned after a running worker was killed on cancellation.
C9_Witness ==
    /\ runPc = "returned"
    /\ \E i \in Instances : proc[i] = "killed" /\ sup[i] = "ExitedClean"

\* The instance is live with zero connected clients, its worker runs, and
\* its zero-timer has been running for longer than IdleTimeout.
IdleTooLong(i) ==
    /\ proc[i] = "running"
    /\ instanceStats[i].IsLive
    /\ instanceStats[i].Connected = 0
    /\ instanceStats[i].LastZeroTime # ZeroTime
    /\ now - instanceStats[i].LastZeroTime > IdleTimeout

\* C5: an instance idle for longer than IdleTimeout eventually has its
\* worker terminated, unless it gets a client or the service is cancelled.
C5_IdleWorkerTerminated ==
    \A i \in 0 .. (NumInstancesTimed - 1) :
        IdleTooLong(i) ~>
            \/ proc[i] # "running"
            \/ instanceStats[i].Connected > 0
            \/ cancelled

\* An uncancelled service holds an instance that has been idle for longer
\* than IdleTimeout, its worker running and its scraper waiting for output.
C5_IdleUnnoticed ==
    /\ ~cancelled
    /\ statsChanged = 0
    /\ aggPc = "select"
    /\ \E i \in Instances : IdleTooLong(i) /\ scr[i] = "scan"

\* The record the k-th application of parseInstanceOutput found stored.
ParseBefore(k) == IF k = 1 THEN call.in.stats ELSE call.out[k - 1].stats

\* C11 as stated: a liveness marker for an instance that is already live
\* leaves its InstanceStats unchanged and prints no banner.
C11_LiveAgainSilent ==
    (call.fn = "parseInstanceOutput" /\ call.in.line.kind = "live") =>
        \A k \in 1 .. Len(call.out) :
            ParseBefore(k).IsLive =>
                /\ call.out[k].stats = ParseBefore(k)
                /\ call.out[k].printed # "banner"

\* C11 as amended: a liveness marker for an instance that is already live
\* leaves its InstanceStats unchanged, sends no change signal, and prints
\* the banner again, whatever the verbosity.
C11_LiveAgainUnchangedBanner ==
    (call.fn = "parseInstanceOutput" /\ call.in.line.kind = "live") =>
        \A k \in 1 .. Len(call.out) :
            ParseBefore(k).IsLive =>
                /\ call.out[k].stats = ParseBefore(k)
                /\ ~call.out[k].changed
                /\ call.out[k].printed = "banner"

\* The liveness marker was processed twice for a record that was not live
\* and holds counts, in a quiet run.
C11_Witness ==
    /\ call.fn = "parseInstanceOutput"
    /\ call.in.line.kind = "live"
    /\ ~call.in.stats.IsLive
    /\ call.in.stats.Connected = 5
    /\ call.in.verbosity = 0
    /\ Len(call.out) = 2

\* What the texts of ParseStatsLines write: <<v>>, or <<>> where nothing
\* is found or the count does not fit an int.
C12_Written(match) ==
    CASE match = NoMatch -> <<>>
      [] match = <<<<"3">>>> -> <<3>>
      [] match = <<<<"5">>>> -> <<5>>
      [] match = <<LongCount>> -> <<>>
      [] match = <<<<"1", ".", "5">>, "MB">> -> <<1572864>>
      [] match = <<<<"1", ".", "2", ".", "3">>, "KB">> -> <<0>>
      [] match = <<<<"0">>, "B">> -> <<0>>
      [] match = <<<<"2">>, "KB">> -> <<2048>>

C12_Field(old, match) ==
    IF C12_Written(match) = <<>> THEN old ELSE C12_Written(match)[1]

\* C12: parsing a stats line sets each of Connecting, Connected, BytesUp,
\* BytesDown whose label is found to the value written there, leaves the
\* others (and the rest of the record) as they were, and reports changed
\* exactly when one of the four differs from what was stored.
C12_StatsLineFields ==
    (call.fn = "parseInstanceOutput" /\ call.in.line.kind = "stats") =>
        \A k \in 1 .. Len(call.out) :
            LET old == ParseBefore(k)
                new == call.out[k].stats
                l == call.in.line
            IN  /\ new = [old EXCEPT
                            !.Connecting = C12_Field(@, l.connecting),
                            !.Connected = C12_Field(@, l.connected),
                            !.BytesUp = C12_Field(@, l.up),
                            !.BytesDown = C12_Field(@, l.down)]
                /\ call.out[k].changed <=>
                     \/ new.Connecting # old.Connecting
                     \/ new.Connected # old.Connected
                     \/ new.BytesUp # old.BytesUp
                     \/ new.BytesDown # old.BytesDown

\* "[STATS] Connecting: 3 Connected: 5 Up: 1.5 MB Down: 0 B" was parsed for
\* a new record and left 3, 5, 1572864, 0, reporting changed.
C12_Witness ==
    /\ call.fn = "parseInstanceOutput"
    /\ call.in.stats = NewInstanceStats
    /\ call.in.line = [kind |-> "stats", connecting |-> <<<<"3">>>>,
                       connected |-> <<<<"5">>>>,
                       up |-> <<<<"1", ".", "5">>, "MB">>,
                       down |-> <<<<"0">>, "B">>]
    /\ Len(call.out) >= 1
    /\ call.out[1].changed
    /\ call.out[1].stats.Connecting = 3
    /\ call.out[1].stats.Connected = 5
    /\ call.out[1].stats.BytesUp = 1572864
    /\ call.out[1].stats.BytesDown = 0

\* C13 as stated: of two parses of one stats line in a row the first
\* reports changed, the second unchanged, and the second leaves the record
\* as the first left it.
C13_FirstChangedSecondNot ==
    (/\ call.fn = "parseInstanceOutput"
     /\ call.in.line.kind = "stats"
     /\ Len(call.out) = 2) =>
        /\ call.out[1].changed
        /\ ~call.out[2].changed
        /\ call.out[2].stats = call.out[1].stats

\* C13 as amended: of two parses of one stats line in a row the second
\* reports unchanged and leaves the record as the first left it; the first
\* reports changed exactly when the line writes a value that differs from
\* the stored one.
C13_SecondUnchanged ==
    (/\ call.fn = "parseInstanceOutput"
     /\ call.in.line.kind = "stats"
     /\ Len(call.out) = 2) =>
        /\ ~call.out[2].changed
        /\ call.out[2].stats = call.out[1].stats
        /\ call.out[1].changed <=> call.out[1].stats # call.in.stats

\* A stats line was parsed twice in a row and the first parse changed the
\* byte counts.
C13_Witness ==
    /\ call.fn = "parseInstanceOutput"
    /\ call.in.line.kind = "stats"
    /\ Len(call.out) = 2
    /\ call.out[1].changed
    /\ call.out[1].stats.BytesUp # call.in.stats.BytesUp

\* The value of the number tokens: t / 10^d, or <<>> for a text that is
\* not a number.
C14_Number(numStr) ==
    CASE numStr = <<"0">> -> <<[t |-> 0, d |-> 0]>>
      [] numStr = <<"1">> -> <<[t |-> 1, d |-> 0]>>
      [] numStr = <<"8">> -> <<[t |-> 8, d |-> 0]>>
      [] numStr = <<"1", "0", "2", "3">> -> <<[t |-> 1023, d |-> 0]>>
      [] numStr = <<"1", ".", "5">> -> <<[t |-> 15, d |-> 1]>>
      [] numStr = <<"7", ".", "5">> -> <<[t |-> 75, d |-> 1]>>
      [] numStr = <<"0", ".", "2", "5">> -> <<[t |-> 25, d |-> 2]>>
      [] numStr = <<".", "5">> -> <<[t |-> 5, d |-> 1]>>
      [] numStr = <<"1", ".">> -> <<[t |-> 1, d |-> 0]>>
      [] numStr = <<"2">> -> <<[t |-> 2, d |-> 0]>>
      [] numStr = <<"1", ".", "0">> -> <<[t |-> 10, d |-> 1]>>
      [] numStr = <<"2", ".", "0">> -> <<[t |-> 20, d |-> 1]>>
      [] OTHER -> <<>>

\* The exponent k of the units of the table; 0 for any other unit.
C14_Exponent(unit) ==
    CASE unit = "KB" -> 1 [] unit = "MB" -> 2 [] unit = "GB" -> 3
      [] unit = "TB" -> 4 [] unit = "PB" -> 5 [] unit = "EB" -> 6
      [] OTHER -> 0

\* t * 1024^k as a magnitude, for 0 <= t < 1024.
C14_Scaled(t, k) == IF t = 0 THEN <<>> ELSE [j \in 1 .. k |-> 0] \o <<t>>

RECURSIVE C14_Less(_, _)
\* a < b, for magnitudes without leading zero digits.
C14_Less(a, b) ==
    IF Len(a) # Len(b) THEN Len(a) < Len(b)
    ELSE IF a = <<>> THEN FALSE
    ELSE IF a[Len(a)] # b[Len(b)] THEN a[Len(a)] < b[Len(b)]
    ELSE C14_Less(Normal(SubSeq(a, 1, Len(a) - 1)),
                  Normal(SubSeq(b, 1, Len(b) - 1)))

C14_Pow10(d) == IF d = 0 THEN 1 ELSE IF d = 1 THEN 10 ELSE 100

\* r is (t / 10^d) * 1024^k truncated: r * 10^d <= t * 1024^k and
\* t * 1024^k < (r + 1) * 10^d.
C14_IsTruncated(r, n, k) ==
    /\ ~C14_Less(C14_Scaled(n.t, k), MulSmall(r, C14_Pow10(n.d), 0))
    /\ C14_Less(C14_Scaled(n.t, k), MulSmall(r, C14_Pow10(n.d), C14_Pow10(n.d)))

\* C14 as stated: parseByteValue returns n * 1024^k truncated for the units
\* of the table, n truncated for any other unit, and 0 for a token that is
\* not a number.
C14_ScaledByUnit ==
    (call.fn = "parseByteValue" /\ call.out # <<>>) =>
        LET n == C14_Number(call.in.numStr)
            r == call.out[1]
        IN  IF n = <<>> THEN r = Int64(FALSE, <<>>)
            ELSE /\ ~r.neg
                 /\ r.mag = Normal(r.mag)
                 /\ C14_IsTruncated(r.mag, n[1], C14_Exponent(call.in.unit))

\* C14 as amended: the same, where n * 1024^k is below 2^63; from 2^63 on
\* (8 EB and more) the result is MinInt64 or MaxInt64, as the build converts.
C14_ScaledByUnitInRange ==
    (call.fn = "parseByteValue" /\ call.out # <<>>) =>
        LET n == C14_Number(call.in.numStr)
            r == call.out[1]
            k == C14_Exponent(call.in.unit)
        IN  IF n = <<>> THEN r = Int64(FALSE, <<>>)
            ELSE IF C14_Less(C14_Scaled(n[1].t, k),
                             MulSmall(<<0, 0, 0, 0, 0, 0, 8>>,
                                      C14_Pow10(n[1].d), 0))
              THEN /\ ~r.neg
                   /\ r.mag = Normal(r.mag)
                   /\ C14_IsTruncated(r.mag, n[1], k)
              ELSE r = IF call.in.saturates THEN Int64Max ELSE Int64Min

\* parseByteValue("7.5", "EB") returned 7.5 * 1024^6.
C14_Witness ==
    /\ call.fn = "parseByteValue"
    /\ call.in.numStr = <<"7", ".", "5">>
    /\ call.in.unit = "EB"
    /\ call.out = <<Int64(FALSE, <<0, 0, 0, 0, 0, 512, 7>>)>>

\* The publish in progress has visited every instance and its totals of the
\* four parsed fields are those of the current records.
PublishIncludesCurrent ==
    /\ aggPc = "loop"
    /\ aggI = numInstances
    /\ acc.connecting = ExactTotals.connecting
    /\ acc.connected = ExactTotals.connected
    /\ acc.up = ExactTotals.up
    /\ acc.down = ExactTotals.down

\* C15: while no cancellation is asserted, a change a scraper has applied
\* (the scraper is about to send its signal, which is dropped when the
\* buffer is full) is eventually followed by a publish that took the lock
\* after the change and whose snapshot holds the changed values.
C15_ChangeEventuallyPublished ==
    \A i \in 0 .. (NumInstancesTimed - 1) :
        (scr[i] = "signal" /\ ~cancelled) ~>
            (cancelled \/ PublishIncludesCurrent)

\* The first publish of the run is about to print, the worker has written
\* two lines since the buffer had one free slot and both changed the record
\* (the record is BusyStats again), yet the buffer holds only one signal
\* more than the one this publish received: the second signal was dropped.
C15_Witness ==
    /\ ~cancelled
    /\ PublishIncludesCurrent
    /\ lastPublished = NoSnapshot
    /\ emitted = 2
    /\ statsChanged = StatsChangedCap - 1
    /\ scr[0] = "scan"
    /\ instanceStats[0] = BusyStats

\* The step in which printAndWriteStats kills the worker of instance i for
\* having been idle.
IdleKill(i) ==
    /\ aggPc = "loop"
    /\ aggI = i
    /\ aggI' = i + 1
    /\ IdleCheck(instanceStats[i]) = "kill"
    /\ processes[i] # 0

\* C16: an idle kill is issued only when the connected count of the
\* instance has been zero without interruption for longer than IdleTimeout
\* (a count that became greater than zero in between has reset the timer).
C16_KillOnlyAfterZeroPeriod ==
    [][\A i \in Instances :
         IdleKill(i) =>
             /\ zeroFrom[i] # <<>>
             /\ now - zeroFrom[i][1] > IdleTimeout]_vars

\* C17: the publish of the ctx.Done() case is the last one.  The aggregator
\* does not return to its select from it; when it completes, statsDone is
\* closed, in that step and in no other; from then on the aggregator has
\* terminated, statsDone stays closed and the published snapshot never
\* changes, whatever the scrapers still write.  Once cancellation is
\* asserted that publish eventually completes.
C17_OneFinalPublishThenDone ==
    /\ [][/\ (aggFinal /\ aggPc \in {"publish", "loop"}) =>
                (aggFinal' /\ aggPc' \in {"publish", "loop", "done"})
          /\ (~statsDone /\ statsDone') =>
                (/\ cancelled
                 /\ aggFinal
                 /\ aggPc = "loop"
                 /\ aggPc' = "done"
                 /\ lastPublished' = acc)
          /\ (aggPc' = "done") => statsDone'
          /\ (aggPc = "done") =>
                (/\ aggPc' = "done"
                 /\ mu' # "agg"
                 /\ lastPublished' = lastPublished)]_vars
    /\ (cancelled ~> (aggPc = "done" /\ statsDone))

\* The aggregator has terminated and a scraper has since stored a connected
\* count that the last snapshot does not hold.
C17_Witness ==
    /\ aggPc = "done"
    /\ statsDone
    /\ lastPublished.connected # ExactTotals.connected

\* The -m text of a spawn writes max(floor(MaxClients / n), 1).
C18_ClientQuota(a) ==
    LET q == call.in.MaxClients \div call.in.numInstances
    IN  Atoi(a.m) = <<IF q >= 1 THEN q ELSE 1>>

\* C18 as stated: every spawn of a run is given max(floor(MaxClients / n), 1)
\* clients and the bandwidth total / n / 125000 Mbps, or -1 when the total
\* is 0; a restart is given what the first spawn was given.
C18_QuotasExact ==
    call.fn = "runInstance" =>
        \A k \in 1 .. Len(call.out) :
            LET a == call.out[k]
                n == call.in.numInstances
                total == call.in.BandwidthBytesPerSecond
            IN  /\ C18_ClientQuota(a)
                /\ IF total = 0 THEN a.b = <<"-", "1">>
                   ELSE /\ ParseFloat(a.b) # <<>>
                        /\ ParseFloat(a.b)[1].d = 2
                        /\ ParseFloat(a.b)[1].t
                             * n * (BytesPerSecondToMbps \div 100) = total
                /\ a = call.out[1]

\* C18 as amended: the bandwidth a spawn is given is total / n / 125000
\* Mbps rounded to the nearest hundredth.
C18_QuotasRounded ==
    call.fn = "runInstance" =>
        \A k \in 1 .. Len(call.out) :
            LET a == call.out[k]
                n == call.in.numInstances
                total == call.in.BandwidthBytesPerSecond
                unit == n * (BytesPerSecondToMbps \div 100)
            IN  /\ C18_ClientQuota(a)
                /\ IF total = 0 THEN a.b = <<"-", "1">>
                   ELSE /\ ParseFloat(a.b) # <<>>
                        /\ ParseFloat(a.b)[1].d = 2
                        /\ LET given == ParseFloat(a.b)[1].t * unit
                           IN  /\ 2 * (given - total) <= unit
                               /\ 2 * (total - given) <= unit
                /\ a = call.out[1]

\* 50 clients and 40 Mbps over 3 instances: the worker is started and
\* restarted with -m 16 -b 13.33.
C18_Witness ==
    /\ call.fn = "runInstance"
    /\ call.in = [MaxClients |-> 50, numInstances |-> 3,
                  BandwidthBytesPerSecond |-> 5000000]
    /\ call.out = <<[m |-> <<"1", "6">>, b |-> <<"1", "3", ".", "3", "3">>],
                    [m |-> <<"1", "6">>, b |-> <<"1", "3", ".", "3", "3">>]>>

\* C19: with --multi-instance and no --instances, one instance is started
\* per 100 max-clients and at least one: the count lies between the whole
\* hundreds and the started hundreds of max-clients (200 gives 2 instances
\* of 100 clients each, 400 gives 4).
C19_OnePerHundred ==
    (call.fn = "runStart" /\ call.in.numInstances = 0 /\ call.out # <<>>) =>
        LET m == call.in.maxClients
            r == call.out[1]
        IN  /\ r.instances >= 1
            /\ r.instances >= m \div 100
            /\ r.instances <= (m + 99) \div 100
            /\ (m = 200 => r = [instances |-> 2, clients |-> 100])
            /\ (m = 400 => r.instances = 4)

\* --max-clients 200 --multi-instance starts 4 instances of 50 clients.
C19_Witness ==
    /\ call.fn = "runStart"
    /\ call.in = [maxClients |-> 200, numInstances |-> 0]
    /\ call.out = <<[instances |-> 4, clients |-> 50]>>

\* The least element of a non-empty set of integers.
C20_Min(S) == CHOOSE v \in S : \A w \in S : v <= w

\* C20: a Config that LoadOrCreate returns holds, for MaxClients, the flag
\* if it is given (not 0), else the value of the config file if it gives
\* one (not 0), else DefaultMaxClients; for the bandwidth, the flag if it is
\* set (-1 meaning no limit, 0), else the smaller positive one of the limits
\* the config file gives (no limit if it gives none that is positive), else
\* DefaultBandwidthMbps.
C20_FlagThenFileThenDefault ==
    (call.fn = "LoadOrCreate" /\ call.out # <<>> /\ ~call.out[1].err) =>
        LET opts == call.in.opts
            file == call.in.file
            limits == {file.InproxyLimitUpstreamBytesPerSecond,
                       file.InproxyLimitDownstreamBytesPerSecond} \ {Nil}
            positive == {l[1] : l \in {m \in limits : m[1] > 0}}
        IN  /\ call.out[1].MaxClients =
                 IF opts.MaxClients # 0 THEN opts.MaxClients
                 ELSE IF file.InproxyMaxClients \notin {Nil, <<0>>}
                   THEN file.InproxyMaxClients[1]
                 ELSE DefaultMaxClients
            /\ call.out[1].BandwidthBytesPerSecond =
                 IF opts.BandwidthSet
                   THEN IF opts.BandwidthMbps = UnlimitedBandwidth THEN 0
                        ELSE 12500 * opts.BandwidthMbps
                 ELSE IF limits # {}
                   THEN IF positive = {} THEN 0 ELSE C20_Min(positive)
                 ELSE 12500 * DefaultBandwidthMbps

\* No flag, and a config file with 88 clients, 900 bytes per second up and
\* 700 down: the Config holds 88 and 700.
C20_Witness ==
    /\ call.fn = "LoadOrCreate"
    /\ call.in.opts.MaxClients = 0
    /\ ~call.in.opts.BandwidthSet
    /\ call.in.file = [InproxyMaxClients |-> <<88>>,
                       InproxyLimitUpstreamBytesPerSecond |-> <<900>>,
                       InproxyLimitDownstreamBytesPerSecond |-> <<700>>]
    /\ call.out = <<[err |-> FALSE, MaxClients |-> 88,
                     BandwidthBytesPerSecond |-> 700]>>

\* What C23 asks of every step.
C23_Step ==
    \A i \in Instances :
      /\ (sup[i] = "Running" /\ sup'[i] # "Running") =>
           IF cancelled
             THEN /\ sup'[i] = "ExitedClean"
                  /\ restartCount'[i] = restartCount[i]
                  /\ wg' = wg - 1
             ELSE /\ sup'[i] = "ExitedCrashed"
                  /\ restartCount'[i] = restartCount[i] + 1
      /\ sup[i] = "ExitedClean" =>
           /\ sup'[i] = "ExitedClean"
           /\ restartCount'[i] = restartCount[i]
           /\ spawned'[i] = spawned[i]
      /\ (sup[i] = "ExitedCrashed" /\ sup'[i] # "ExitedCrashed") =>
           /\ sup'[i] = IF restartCount[i] >= MaxRestarts
                          THEN "GivenUp" ELSE "Backoff"
           /\ instanceStats'[i].RestartCount = restartCount[i]

\* C23: a worker exit seen by the supervisor while the context is cancelled
\* ends the supervisor ExitedClean, with restartCount as it was, and from
\* there nothing is spawned and nothing changes; a worker exit seen while the
\* context is not cancelled is ExitedCrashed with restartCount one higher,
\* and ExitedCrashed is left only by the test of the ceiling, to the backoff
\* delay or to GivenUp.
C23_ExitClassifiedByCancellation ==
    ~ENABLED (NextSup /\ ~C23_Step)

\* One supervisor ended clean on the exit of its worker, another one saw its
\* worker exit before the cancellation and is in its backoff delay.
C23_Witness ==
    \E i, j \in Instances :
        /\ cancelled
        /\ sup[i] = "ExitedClean"
        /\ spawned[i] = restartCount[i] + 1
        /\ sup[j] = "Backoff"
        /\ spawned[j] = restartCount[j]

\* The supervisor of i sees runInstance return without a process started.
SpawnFailure(i) ==
    /\ sup[i] = "Starting"
    /\ sup'[i] \notin {"Starting", "Running"}

\* What C24 asks of every step.
C24_Step ==
    \A i \in Instances :
      /\ SpawnFailure(i) =>
           /\ lastErr'[i]
           /\ IF cancelled
                THEN /\ sup'[i] = "ExitedClean"
                     /\ restartCount'[i] = restartCount[i]
                ELSE /\ sup'[i] = "ExitedCrashed"
                     /\ restartCount'[i] = restartCount[i] + 1
           /\ UNCHANGED <<procVars, scrVars, instanceStats, errChan>>
           /\ \A j \in Instances \ {i} :
                /\ sup'[j] = sup[j]
                /\ restartCount'[j] = restartCount[j]
                /\ lastErr'[j] = lastErr[j]
      /\ (sup[i] = "ExitedCrashed" /\ sup'[i] = "GivenUp" /\ lastErr[i]) =>
           /\ restartCount[i] = MaxRestarts
           /\ errChan' = Append(errChan, i)

\* C24: a failed spawn is treated as a worker exit is: outside cancellation
\* the supervisor goes to ExitedCrashed with restartCount one higher and the
\* spawn error kept (under cancellation it ends ExitedClean, as after a
\* worker exit); no process is spawned and nothing of another instance
\* changes; from ExitedCrashed the way is the same whatever led there, so an
\* instance that gives up at the ceiling holding an error queues that error.
C24_SpawnFailureLikeCrash ==
    ~ENABLED (NextSup /\ ~C24_Step)

\* An instance whose last attempts were failed spawns, without a process,
\* has given up, its error queued, next to an instance whose worker runs
\* undisturbed.
C24_Witness ==
    \E i, j \in Instances :
        /\ sup[i] = "GivenUp"
        /\ spawned[i] = MaxRestarts - AttemptsLeft
        /\ restartCount[i] = MaxRestarts
        /\ \E k \in 1 .. Len(errChan) : errChan[k] = i
        /\ sup[j] = "Running"
        /\ restartCount[j] = MaxRestarts - AttemptsLeft
        /\ ~cancelled

\* C30: every delay a supervisor has slept is RestartBackoff long, whatever
\* the restart count it followed, and a supervisor that is about to spawn,
\* or has spawned, has slept one delay for each exit it counted as a crash:
\* one delay lies between a crash and the next spawn.
C30_OneFixedBackoffPerRestart ==
    \A i \in Instances :
        /\ \A k \in 1 .. Len(slept[i]) : slept[i][k] = RestartBackoff
        /\ sup[i] \in {"Starting", "Running", "Backoff", "ExitedClean"} =>
             Len(slept[i]) = restartCount[i]
        /\ sup[i] \in {"ExitedCrashed", "GivenUp"} =>
             Len(slept[i]) = restartCount[i] - 1

\* A worker spawned after the third crash of its instance, three delays
\* slept.
C30_Witness ==
    \E i \in Instances :
        /\ sup[i] = "Running"
        /\ restartCount[i] = 3
        /\ spawned[i] >= 2
        /\ Len(slept[i]) = 3

\* The line a scraper holds is a stats line and parsing it assigns one of
\* the four fields of the record a value it did not hold.
ChangesField(i) ==
    /\ scrLine[i].kind = "stats"
    /\ \/ instanceStats'[i].Connecting # instanceStats[i].Connecting
       \/ instanceStats'[i].Connected # instanceStats[i].Connected
       \/ instanceStats'[i].BytesUp # instanceStats[i].BytesUp
       \/ instanceStats'[i].BytesDown # instanceStats[i].BytesDown

\* C28: a scraper that has parsed a line goes on to send a signal exactly if
\* the line was a stats line that changed a stored field (a repeated stats
\* line, a liveness line and any other line send none), a signal is queued
\* by that send only, and the publishes never outnumber the value-changing
\* lines by more than one, the final publish.
C28_SignalIffStatsChanged ==
    /\ [](tally.publishes <= tally.changes + 1)
    /\ [][/\ \A i \in Instances :
               (scr[i] = "line" /\ scr'[i] # "line") =>
                   (scr'[i] = "signal" <=> ChangesField(i))
          /\ statsChanged' > statsChanged =>
               \E i \in Instances : scr[i] = "signal" /\ scr'[i] = "scan"]_vars

\* Two lines were parsed, one of them changed a field, and the aggregator has
\* published twice: once for the change and once at shutdown.
C28_Witness ==
    /\ emitted = 2
    /\ \A i \in Instances : scr[i] \in {"scan", "done"}
    /\ tally.changes = 1
    /\ tally.publishes = 2
    /\ statsDone

\* C29: a scraper that is to send its signal can always take that step,
\* whatever the aggregator does, holds or has become and however many
\* signals are queued; the step takes no lock, queues the signal if the
\* buffer has room and drops it otherwise, and leaves the scraper reading
\* its next line.
C29_SendNeverBlocks ==
    /\ [](\A i \in Instances : scr[i] = "signal" => ENABLED ScrSignal(i))
    /\ [][\A i \in Instances :
            (scr[i] = "signal" /\ scr'[i] # "signal") =>
               /\ scr'[i] = "scan"
               /\ mu' = mu
               /\ statsChanged' = IF statsChanged < StatsChangedCap
                                    THEN statsChanged + 1
                                    ELSE statsChanged]_vars

\* The buffer is full and the aggregator has taken nothing from it; the
\* scraper has sent two signals since one slot was free and waits for its
\* third line: its second signal was dropped.
C29_Witness ==
    /\ statsChanged = StatsChangedCap
    /\ aggPc = "select"
    /\ lastPublished = NoSnapshot
    /\ ~cancelled
    /\ emitted = 2
    /\ scr[0] = "scan"
    /\ instanceStats[0] = BusyStats

\* What C22 asks of every step.
C22_Step ==
    /\ cancelled => cancelled'
    /\ aggPc = "done" => (aggPc' = "done" /\ statsDone' = statsDone)

\* C22: whatever the number and the interleaving of the cancellation
\* requests (the caller's signal, the calls of Stop, Run's own cancel), the
\* context stays cancelled once it is, Stop sends os.Interrupt to no worker
\* process twice, and close(m.statsDone) runs once: the aggregator has
\* returned when statsDone is closed and takes no step after that.
C22_CancellationIdempotent ==
    /\   (\A a, b \in 1 .. Len(signalled) :
            a # b => signalled[a] # signalled[b])
    /\   (statsDone => aggPc = "done")
    /\ ~ENABLED (NextStop /\ ~C22_Step)

\* Stop was called twice and both calls have returned, the worker was sent
\* one interrupt, the aggregator has closed statsDone and Run has returned.
C22_Witness ==
    /\ \A k \in StopCalls : stopPc[k] = "done"
    /\ Len(signalled) = 1
    /\ \A i \in Instances : processes[i] = 0
    /\ statsDone
    /\ runPc = "returned"

\* The supervisor of i starts a worker in this step.
Spawns(i) == sup[i] = "Starting" /\ sup'[i] = "Running"

C27_Step ==
    /\ \A i \in Instances :
         processes'[i] # processes[i] =>
            \/ /\ Spawns(i)
               /\ mu = "free"
               /\ processes'[i] = spawned'[i]
            \/ /\ mu = "stop"
               /\ stopI = i
               /\ processes'[i] = 0
               /\ signalled' = Append(signalled, <<i, processes[i]>>)
    /\ (\E i \in Instances : IdleKill(i)) => processes' = processes

PrintsInSection(i) ==
    /\ scr[i] = "line"
    /\ scr'[i] # "line"
    /\ \A verbosity \in Verbosities, saturates \in Builds :
         parseInstanceOutput(instanceStats[i], scrLine[i],
                             verbosity, saturates).printed # "none"

\* C26: no goroutine prints, writes the stats file, kills or signals a
\* process while it holds m.mu: the aggregator does not hold the lock in the
\* step of an idle kill, Stop does not hold it in a step that interrupts a
\* process, no scraper prints inside its critical section, and the publish
\* (console line and stats file) is made in the step that has released the
\* lock.
C26_NoIOUnderLock ==
    [][/\ (\E i \in Instances : IdleKill(i)) => mu # "agg"
       /\ signalled' # signalled => mu # "stop"
       /\ \A i \in Instances : ~PrintsInSection(i)
       /\ lastPublished' # lastPublished => mu' = "free"]_vars

\* C25: once the context is cancelled, whenever the grace timer of the
\* watcher of the worker spawned last may elapse, the watcher's test orders
\* cmd.Process.Kill() exactly if that process has not ended, however it
\* ended.
C25_KillIffNotExited ==
    \A i \in Instances :
        (cancelled /\ spawned[i] > 0) =>
            (WatcherKills(i) <=> ~Exited(proc[i]))

C31_ForwardedIffVerbose ==
    (call.fn = "runInstanceScan" /\ call.out # <<>>) =>
        LET r == call.out[1]
            verbose == call.in.verbosity >= 1
        IN  CASE call.in.line.kind = "other" ->
                   /\ r.stats = call.in.stats
                   /\ (r.printed = "line") <=> verbose
                   /\ r.printed \in {"line", "none"}
              [] call.in.line.kind = "stats" ->
                   /\ (r.printed = "line") <=> verbose
                   /\ r.printed \in {"line", "none"}
              [] OTHER -> r.printed = "banner"

\* C31 (amended): of the lines a worker writes to its stdout, one that
\* carries neither marker never changes InstanceStats and is forwarded with
\* the instance prefix if and only if verbosity is at least 1, a stats-marker
\* line is forwarded under the same condition, and the liveness banner is
\* printed at every verbosity.  A line the worker writes to its stderr is
\* forwarded with the instance prefix at every verbosity, whatever it
\* carries, and never changes InstanceStats.
C31_StdoutIffVerboseStderrAlways ==
    (call.fn = "runInstanceScan" /\ call.out # <<>>) =>
        LET r == call.out[1]
            verbose == call.in.verbosity >= 1
        IN  IF call.in.stream = "stdout"
              THEN CASE call.in.line.kind = "other" ->
                          /\ r.stats = call.in.stats
                          /\ ~r.changed
                          /\ r.printed = IF verbose THEN "line" ELSE "none"
                     [] call.in.line.kind = "stats" ->
                          r.printed = IF verbose THEN "line" ELSE "none"
                     [] OTHER -> r.printed = "banner"
              ELSE /\ r.stats = call.in.stats
                   /\ ~r.changed
                   /\ r.printed = "line"

\* A quiet parent has dropped a stdout line without a marker.
C31_Witness ==
    /\ call.fn = "runInstanceScan"
    /\ call.out # <<>>
    /\ call.in.stream = "stdout"
    /\ call.in.verbosity = 0
    /\ call.in.line = OtherLine
    /\ call.in.stats = BusyStats
    /\ call.out[1].stats = BusyStats
    /\ call.out[1].printed = "none"

\* What C32 asks of every step.
C32_Step ==
    /\ numInstances' = numInstances
    /\ \A i \in Instances :
         (proc'[i] = "running" /\ proc[i] # "running")
             <=> spawned'[i] # spawned[i]
    /\ \A i \in Instances :
         spawned'[i] # spawned[i] =>
             /\ spawned'[i] = spawned[i] + 1
             /\ sup[i] = "Starting" /\ sup'[i] = "Running"
             /\ spawned[i] > 0 =>
                  /\ Exited(proc[i])
                  /\ ProcessState(i) = proc[i]

\* C32: for every configured index there is exactly one supervisor and one
\* InstanceStats record for the whole run, and at most one worker process of
\* that index runs at any moment: a worker is spawned only by the supervisor
\* of its index, out of runInstance's start, and only when the worker
\* spawned before it for that index has exited and cmd.Wait has returned.
C32_OneSupervisorOneWorker ==
    /\   (/\ DOMAIN sup = Instances
          /\ DOMAIN instanceStats = Instances
          /\ DOMAIN processes = Instances
          /\ \A i \in Instances :
               proc[i] = "running" => sup[i] = "Running")
    /\ ~ENABLED (NextShared /\ ~C32_Step)

\* The second worker of an instance runs, the first one having exited and
\* been waited for, while the other instance still runs its first worker.
C32_Witness ==
    \E i, j \in Instances :
        /\ spawned[i] = 2 /\ proc[i] = "running" /\ sup[i] = "Running"
        /\ instanceStats[i].RestartCount = 1
        /\ spawned[j] = 1 /\ proc[j] = "running"

\* The supervisor of i has recorded the exit of the worker spawned last for
\* i and has spawned no worker since.
CrashRecorded(i) ==
    \/ sup[i] \in {"Backoff", "GivenUp"}
    \/ sup[i] = "Starting" /\ restartCount[i] > 0

\* C33: once the supervisor of an instance has recorded a crash (and in
\* particular once it has given up), every publish reports that instance
\* with isLive=false until a newly spawned worker announces liveness: no
\* line of the exited worker that its scraper still holds sets the instance
\* live again.
C33_NotLiveAfterRecordedCrash ==
    [][(aggPc = "loop" /\ aggI' = aggI + 1 /\ CrashRecorded(aggI))
           => acc'.live = acc.live]_vars

\* C34: an idle kill is issued for an instance only if its currently running
\* worker has itself been live, without clients, for longer than
\* IdleTimeout: the instance has then been live without interruption for
\* longer than IdleTimeout, no crash having been recorded in between.
C34_KillOnlyAfterOwnIdlePeriod ==
    [][\A i \in Instances :
         (IdleKill(i) /\ proc[i] = "running") =>
             /\ liveFrom[i] # <<>>
             /\ now - liveFrom[i][1] > IdleTimeout]_vars

\* The step in which the supervisor of i records the exit of its worker.
RecordsCrash(i) ==
    /\ sup[i] = "ExitedCrashed"
    /\ sup'[i] \in {"Backoff", "GivenUp"}

\* What C35 asks of every step.
C35_Step ==
    \A i \in Instances :
      RecordsCrash(i) =>
          /\ instanceStats'[i] =
                 [instanceStats[i] EXCEPT !.RestartCount = restartCount[i],
                                          !.IsLive = FALSE]
          /\ \A j \in Instances \ {i} :
                 instanceStats'[j] = instanceStats[j]

\* C35: recording a crash changes only RestartCount and IsLive of that
\* instance: its connecting count, connected count, bytes up and bytes down
\* (and its zero-timer) keep the last values the exited worker reported, and
\* the InstanceStats of every other instance is unchanged.
C35_CrashRecordFrame ==
    ~ENABLED (NextShared /\ ~C35_Step)

\* The crash of an instance that had reported clients and traffic is
\* recorded, the counts are still there, and the worker of the other
\* instance runs.
C35_Witness ==
    \E i, j \in Instances :
        /\ sup[i] = "Backoff"
        /\ instanceStats[i] =
               [parseStatsLine(NewInstanceStats, StatsFull, FALSE)
                   EXCEPT !.RestartCount = 1]
        /\ instanceStats[i].Connected = 1
        /\ instanceStats[i].BytesUp = 1024
        /\ j # i
        /\ sup[j] = "Running"
        /\ proc[j] = "running"

\* C36: if creating the data directory of instance k fails, Run returns that
\* error and leaves nothing running: the context is cancelled and every
\* supervisor and worker started for the instances 0 .. k-1 has terminated
\* when Run has returned.
C36_MkdirFailureLeavesNothingRunning ==
    (runPc = "returned" /\ runResult = MkdirError) =>
        \A i \in Instances :
            sup[i] # "NotStarted" =>
                /\ cancelled
                /\ sup[i] \in {"ExitedClean", "GivenUp"}
                /\ proc[i] # "running"

\* The supervisor of i has decided to give up with an error and is about to
\* send it.
AboutToSendError(i) ==
    /\ sup[i] = "ExitedCrashed"
    /\ ReachedMax(restartCount[i])
    /\ lastErr[i]

\* The errors instance i has placed on the error channel so far.
ErrorsSent(i) == Cardinality({n \in 1 .. Len(gaveUp) : gaveUp[n] = i})

\* What C37 asks of every step.
C37_Step ==
    \A i \in Instances :
      ErrorsSent(i)' > ErrorsSent(i) =>
          /\ AboutToSendError(i)
          /\ errChan' = Append(errChan, i)
          /\ sup'[i] = "GivenUp"
          /\ wg' = wg - 1

\* C37: each supervisor places at most one error on the error channel in
\* its lifetime (the send is followed by its return), so with a capacity of
\* numInstances the send at give-up always finds room, whatever the other
\* supervisors have sent, and the supervisor terminates: also when every
\* instance gives up.
C37_GiveUpSendNeverBlocks ==
    /\   (/\ Len(errChan) <= ErrChanCap(numInstances)
          /\ \A i \in Instances :
               /\ ErrorsSent(i) <= 1
               /\ AboutToSendError(i) =>
                    /\ CanSendError(errChan, lastErr[i])
                    /\ ErrorsSent(i) = 0
                    /\ mu = "free" => ENABLED SupRecord(i))
    /\ ~ENABLED (NextSup /\ ~C37_Step)

\* Every instance has given up with an error and all the errors are queued:
\* the channel is full and no supervisor is left.
C37_Witness ==
    /\ \A i \in Instances : sup[i] = "GivenUp" /\ lastErr[i]
    /\ Len(errChan) = numInstances
    /\ Len(errChan) = ErrChanCap(numInstances)
    /\ \A i \in Instances : ErrorsSent(i) = 1

\* The cmd in slot i, if any, is one whose cmd.Start succeeded.
StartedHandle(i) == processes[i] # 0 => processes[i] \in 1 .. spawned[i]

\* What C38 asks of every step.
C38_Step ==
    /\ \A i \in Instances :
         (IdleKill(i) /\ proc'[i] # proc[i]) =>
             processes[i] \in 1 .. spawned[i]
    /\ Len(signalled') > Len(signalled) =>
         /\ processes[stopI] \in 1 .. spawned[stopI]
         /\ signalled' = Append(signalled, <<stopI, processes[stopI]>>)
    /\ \A i \in Instances :
         (sup[i] = "Starting" /\ sup'[i] = "ExitedCrashed") =>
             processes'[i] = processes[i]

\* C38: in every reachable state each non-empty slot of the process table
\* refers to a worker process that was successfully started, so the idle
\* kill and Stop, which act on the non-empty slots only, never act on a
\* missing process handle, for any interleaving of spawn failures, restarts,
\* idle kills and calls of Stop.
C38_SlotsHoldStartedWorkers ==
    /\   (/\ \A i \in Instances : StartedHandle(i)
          /\ \A n \in 1 .. Len(signalled) :
               signalled[n][2] \in 1 .. spawned[signalled[n][1]])
    /\ ~ENABLED (NextStop /\ ~C38_Step)

\* After a restart the instance runs its second worker, whose cmd is in the
\* slot, and a Stop holds the lock and is about to act on that slot.
C38_Witness ==
    \E i \in Instances, k \in StopCalls :
        /\ spawned[i] = 2
        /\ processes[i] = 2
        /\ proc[i] = "running"
        /\ instanceStats[i].RestartCount = 1
        /\ stopPc[k] = "loop"
        /\ stopI = i

\* C39: for every parent configuration that passes validation (max-clients
\* in 1..1000, total bandwidth at least 1 Mbps or unlimited) and every
\* number of instances in 1..32, the -m and -b values given to each worker
\* pass the worker's own start-up validation: no worker is spawned with
\* arguments it rejects.
C39_WorkerAcceptsItsArguments ==
    (call.fn = "spawnArgs" /\ call.out # <<>> /\ call.out[1].spawned) =>
        call.out[1].accepted

\* The aggregate as last published; before the first publish nothing has
\* been shown of any instance.
Published == IF lastPublished = NoSnapshot THEN ZeroTotals ELSE lastPublished

\* The live count and the restart sum of the last publish are those of the
\* current records.
LivenessPublished ==
    /\ Published.live = ExactTotals.live
    /\ Published.restarts = ExactTotals.restarts

\* C40: while no cancellation is asserted, every change of a value that
\* appears in the aggregate, including an instance becoming live, an
\* instance losing liveness on a crash and an increment of its restart
\* count, is eventually followed by a publish that reflects it.
C40_LivenessChangeEventuallyPublished ==
    (~cancelled /\ ~LivenessPublished) ~> (cancelled \/ LivenessPublished)

====
